---- MODULE Spec2Model ----
(***************************************************************************)
(* A model of the xbbs build coordinator (src/xbbs/coordinator/__init__.py)*)
(* and of the worker's reporting protocol (src/xbbs/worker/__init__.py).   *)
(*                                                                         *)
(* The coordinator is single-threaded and cooperative (gevent): a task     *)
(* runs until it blocks.  Handlers that never block are one action each.   *)
(* The solver (solve_project) blocks only in Queue.put on a full queue and *)
(* in Event.wait on a clear event; its scan is modelled one job per step,  *)
(* and while it is scanning (Busy) no other task takes a step.             *)
(***************************************************************************)
EXTENDS Integers, Sequences, FiniteSets, TLC

(* ------------------------------- bounds ------------------------------- *)
\* number of builds of the project a behaviour may create
MaxBuilds == 2

\* gevent.queue.Queue(1): capacity of outgoing_job_queue
QueueSize == 1

\* number of sockets a worker may open (one more than its reconnects)
MaxConn == 2

\* bytes per chunk (CHUNK_SIZE, scaled down) and the longest file uploaded
ChunkSize == 2
MaxFileLen == 3

\* number of staging files chunk messages from arbitrary senders may create
MaxStores == 2

\* number of versions a tool goes through
MaxVersion == 3

\* time is counted in units of 30 seconds: outgoing_job_queue.get(timeout=60)
\* gives up after two units, the worker's jobs.poll(90000) after three;
\* gevent.sleep(1) ends within one unit
GetTimeout == 2
PollTimeout == 3

(* ----------------------------- vocabulary ----------------------------- *)
\* the one configured project, and a name that is in no configuration
ProjectName == "proj"
ProjectNames == {ProjectName, "nope"}

Workers == {"w1", "w2"}

\* messages.JobStatus
WAITING == "WAITING"
RUNNING == "RUNNING"
WAITING_FOR_DONE == "WAITING_FOR_DONE"
FAILED == "FAILED"
SUCCESS == "SUCCESS"
PREREQUISITE_FAILED == "PREREQUISITE_FAILED"
UP_TO_DATE == "UP_TO_DATE"
IGNORED_FAILURE == "IGNORED_FAILURE"

JobStatus ==
  {WAITING, RUNNING, WAITING_FOR_DONE, FAILED, SUCCESS,
   PREREQUISITE_FAILED, UP_TO_DATE, IGNORED_FAILURE}

\* JobStatus.terminating with every status of kind "failed" or "success"
terminating_named(s) ==
  s \in {FAILED, SUCCESS, IGNORED_FAILURE, UP_TO_DATE, PREREQUISITE_FAILED}

\* JobStatus.terminating
terminating(s) == s \in {FAILED, SUCCESS, IGNORED_FAILURE, UP_TO_DATE}

\* JobStatus.successful
successful(s) == s \in {SUCCESS, IGNORED_FAILURE, UP_TO_DATE}

\* messages.BuildState (UPDATING_MIRRORS is used by run_project)
BuildState ==
  {"SCHEDULED", "FETCH", "SETUP", "UPDATING_MIRRORS", "CALCULATING",
   "SETUP_REPOS", "RUNNING", "DONE"}

\* exit codes a JobCompletionMessage may carry (0 and a failure)
ExitCodes == {0, 1}

\* Job.exit_code before a completion message stored one (None)
NoExitCode == -1

(* ------------------- graphs the generator may return ------------------ *)
\* one entry of the graph: Job(unstable, capabilities, deps, products)
\* together with the entry's up2date flag. A graph lists its jobs in order,
\* and gives each artifact name its kind and the "architecture" string of
\* its entries (a FILE entry has none: set_graph does not read the field)
JobInfo(unst, u2d, caps, deps, prods) ==
  [unstable |-> unst, up2date |-> u2d, capabilities |-> caps,
   deps |-> deps, products |-> prods]

EmptyGraph ==
  [order |-> <<>>, job |-> [j \in {} |-> JobInfo(FALSE, FALSE, {}, <<>>, <<>>)],
   kind |-> [a \in {} |-> "FILE"],
   architecture |-> [a \in {} |-> "x86_64"]]

\* scenario 2-4: A produces package p, B consumes p and produces tool t
ChainGraph(ua, ub, capsA) ==
  [order |-> <<"A", "B">>,
   job |-> [j \in {"A", "B"} |->
              IF j = "A" THEN JobInfo(ua, FALSE, capsA, <<>>, <<"p">>)
                         ELSE JobInfo(ub, FALSE, {}, <<"p">>, <<"t">>)],
   kind |-> [a \in {"p", "t"} |-> IF a = "p" THEN "PACKAGE" ELSE "TOOL"],
   architecture |-> [a \in {"p", "t"} |-> "x86_64"]]

\* an incremental build of the chain: A is up to date, its package is seeded
UpToDateChain ==
  [order |-> <<"A", "B">>,
   job |-> [j \in {"A", "B"} |->
              IF j = "A" THEN JobInfo(FALSE, TRUE, {}, <<>>, <<"p">>)
                         ELSE JobInfo(FALSE, FALSE, {}, <<"p">>, <<"t">>)],
   kind |-> [a \in {"p", "t"} |-> IF a = "p" THEN "PACKAGE" ELSE "TOOL"],
   architecture |-> [a \in {"p", "t"} |-> "x86_64"]]

\* an incremental graph: D -> d -> A -> p -> B -> q -> C, where B is up to
\* date although its producers are not, so that C runs while A waits for d
CascadeGraph ==
  [order |-> <<"D", "A", "B", "C">>,
   job |-> [j \in {"D", "A", "B", "C"} |->
              CASE j = "D" -> JobInfo(FALSE, FALSE, {}, <<>>, <<"d">>)
                [] j = "A" -> JobInfo(FALSE, FALSE, {}, <<"d">>, <<"p">>)
                [] j = "B" -> JobInfo(FALSE, TRUE, {}, <<"p">>, <<"q">>)
                [] j = "C" -> JobInfo(FALSE, FALSE, {}, <<"q">>, <<"f">>)],
   kind |-> [a \in {"d", "p", "q", "f"} |-> IF a = "f" THEN "FILE" ELSE "PACKAGE"],
   architecture |-> [a \in {"d", "p", "q", "f"} |-> "x86_64"]]

\* two jobs without deps, dispatched in one scan: A produces package p and
\* asks for capsA, B produces tool t and asks for nothing
ForkGraph(capsA) ==
  [order |-> <<"A", "B">>,
   job |-> [j \in {"A", "B"} |->
              IF j = "A" THEN JobInfo(FALSE, FALSE, capsA, <<>>, <<"p">>)
                         ELSE JobInfo(FALSE, FALSE, {}, <<>>, <<"t">>)],
   kind |-> [a \in {"p", "t"} |-> IF a = "p" THEN "PACKAGE" ELSE "TOOL"],
   architecture |-> [a \in {"p", "t"} |-> "x86_64"]]

\* the architectures a graph entry may name
Archs == {"noarch", "x86_64", "aarch64"}

\* the chain with an architecture for its package and for its tool; A may
\* be up to date
ArchChain(ap, at, u2d) ==
  [order |-> <<"A", "B">>,
   job |-> [j \in {"A", "B"} |->
              IF j = "A" THEN JobInfo(FALSE, u2d, {}, <<>>, <<"p">>)
                         ELSE JobInfo(FALSE, FALSE, {}, <<"p">>, <<"t">>)],
   kind |-> [a \in {"p", "t"} |-> IF a = "p" THEN "PACKAGE" ELSE "TOOL"],
   architecture |-> [a \in {"p", "t"} |-> IF a = "p" THEN ap ELSE at]]

ArchGraphs == {ArchChain(ap, at, u2d) : ap \in Archs, at \in Archs, u2d \in BOOLEAN}

\* three jobs that share artifacts: A produces tool t, package p and file
\* f; B needs t and p and produces package q and, again, file f; C needs t
\* and q and produces file g. Each tool and package names an architecture;
\* up lists the up-to-date jobs
ShareGraph(at, ap, aq, up) ==
  [order |-> <<"A", "B", "C">>,
   job |-> [j \in {"A", "B", "C"} |->
              CASE j = "A" -> JobInfo(FALSE, j \in up, {}, <<>>, <<"t", "p", "f">>)
                [] j = "B" -> JobInfo(FALSE, j \in up, {}, <<"t", "p">>, <<"q", "f">>)
                [] j = "C" -> JobInfo(FALSE, j \in up, {}, <<"t", "q">>, <<"g">>)],
   kind |-> [a \in {"t", "p", "q", "f", "g"} |->
               CASE a = "t" -> "TOOL"
                 [] a \in {"p", "q"} -> "PACKAGE"
                 [] a \in {"f", "g"} -> "FILE"],
   architecture |-> [a \in {"t", "p", "q", "f", "g"} |->
               CASE a = "t" -> at
                 [] a = "p" -> ap
                 [] a = "q" -> aq
                 [] a \in {"f", "g"} -> "None"]]

ShareGraphs ==
  {ShareGraph(at, ap, aq, up) :
     at \in Archs, ap \in Archs, aq \in Archs, up \in SUBSET {"A", "B"}}

\* files: A produces package p and file f, B needs p and produces file g;
\* each job may be up to date
FileGraph(ua, ub) ==
  [order |-> <<"A", "B">>,
   job |-> [j \in {"A", "B"} |->
              IF j = "A" THEN JobInfo(FALSE, ua, {}, <<>>, <<"p", "f">>)
                         ELSE JobInfo(FALSE, ub, {}, <<"p">>, <<"g">>)],
   kind |-> [a \in {"p", "f", "g"} |-> IF a = "p" THEN "PACKAGE" ELSE "FILE"],
   architecture |-> [a \in {"p", "f", "g"} |-> IF a = "p" THEN "x86_64" ELSE "None"]]

FileGraphs == {FileGraph(ua, ub) : ua \in BOOLEAN, ub \in BOOLEAN}

\* graphs the generator is trusted not to produce (set_graph checks neither):
\* a dependency cycle A -> p -> B -> q -> A
CycleGraph ==
  [order |-> <<"A", "B">>,
   job |-> [j \in {"A", "B"} |->
              IF j = "A" THEN JobInfo(FALSE, FALSE, {}, <<"q">>, <<"p">>)
                         ELSE JobInfo(FALSE, FALSE, {}, <<"p">>, <<"q">>)],
   kind |-> [a \in {"p", "q"} |-> IF a = "p" THEN "PACKAGE" ELSE "TOOL"],
   architecture |-> [a \in {"p", "q"} |-> "x86_64"]]

\* a job that needs its own product, next to an independent job
SelfGraph ==
  [order |-> <<"A", "B">>,
   job |-> [j \in {"A", "B"} |->
              IF j = "A" THEN JobInfo(FALSE, FALSE, {}, <<"p">>, <<"p">>)
                         ELSE JobInfo(FALSE, FALSE, {}, <<>>, <<"t">>)],
   kind |-> [a \in {"p", "t"} |-> IF a = "p" THEN "PACKAGE" ELSE "TOOL"],
   architecture |-> [a \in {"p", "t"} |-> "x86_64"]]

\* shared products: A produces p and q; B needs p and also produces q;
\* C needs q and also produces p (and t), which closes a cycle through B
SharedGraph ==
  [order |-> <<"A", "B", "C">>,
   job |-> [j \in {"A", "B", "C"} |->
              CASE j = "A" -> JobInfo(FALSE, FALSE, {}, <<>>, <<"p", "q">>)
                [] j = "B" -> JobInfo(FALSE, FALSE, {}, <<"p">>, <<"q">>)
                [] j = "C" -> JobInfo(FALSE, FALSE, {}, <<"q">>, <<"p", "t">>)],
   kind |-> [a \in {"p", "q", "t"} |-> "TOOL"],
   architecture |-> [a \in {"p", "q", "t"} |-> "x86_64"]]

CyclicGraphs == {CycleGraph, SelfGraph, SharedGraph}

\* the chain with each choice of unstable, and with a capability on A
ChainGraphs ==
  {ChainGraph(ua, ub, {}) : ua \in BOOLEAN, ub \in BOOLEAN}
    \cup {ChainGraph(FALSE, FALSE, {"c"})}

SmallGraphs == ChainGraphs \cup {UpToDateChain, EmptyGraph}

GraphSet == SmallGraphs \cup {CascadeGraph}

\* capabilities the workers' configurations may declare: one worker offers
\* "c", or none does
SomeCaps == [w \in Workers |-> IF w = "w1" THEN {"c"} ELSE {}]
NoCaps == [w \in Workers |-> {}]

\* a deployment: the project's graph and the workers' capabilities (the
\* workers' capabilities only matter to a graph that asks for one)
Configs(graphs) ==
  {c \in graphs \X {SomeCaps, NoCaps} :
     c[2] = SomeCaps \/ \E j \in DOMAIN c[1].job : c[1].job[j].capabilities # {}}

(* -------------------------------- state ------------------------------- *)
VARIABLES
  gen,        \* the graph xbstrap-pipeline compute-graph returns for the project
  built,      \* the Build that set_graph makes of that graph (it reads the graph alone)
  frames,     \* the calls of Job.fail in progress, and the cmd_fail loop that made them
  wcaps,      \* worker -> capabilities of its JobRequest
  current,    \* Project.current: 0 (None) or the id of the active build
  nbuilds,    \* number of Builds created so far; the job state below is build nbuilds'
  state,      \* build id -> Build.state ("NONE" before Build.create)
  recorded,   \* build id -> success written by store_status in run_project's finally
  dpc,        \* position of the run_project greenlet of build nbuilds
  status,     \* job name -> Job.status           (Build.jobs)
  exit_code,  \* job name -> Job.exit_code (NoExitCode for None)
  received,   \* artifact name -> Artifact.received (tool_set, pkg_set, file_set)
  failed,     \* artifact name -> Artifact.failed
  event,      \* Build.artifact_received is set
  solver,     \* solve_project: pc, position in build.jobs, some_waiting, held item
  queue,      \* Xbbs.outgoing_job_queue: sequence of [build, job]
  enqueued,   \* history: the jobs of build nbuilds solve_project has called put for
  wk,         \* worker -> what it runs and the products it still has to report
  intake,     \* the artifact deposit the intake task is suspended in, if any
  reply,      \* status code of the command loop's last reply (0: none yet)
  cmdloop,    \* command_loop: still serving, and the replies of its last iteration
  tasks,      \* routing id -> the job_handling_coroutine spawned for its request
  wreq,       \* worker -> its socket (connection number) and its poll for a reply
  sent,       \* history: each send_multipart of a job, its target and its outcome
  table,      \* cmd_chunk.table: digest -> index of the store in staged
  staged,     \* the stores cmd_chunk created: staging file and hasher
  up,         \* worker -> the upload it is in the middle of, if any
  dropped,    \* history: digest of the last chunk message cmd_chunk dropped
  heap,       \* a Build's Artifact objects, its jobs' references and its sets
  tools_json,      \* rolling/tool_repo/tools.json: tool name -> version (0: no entry)
  tool_repo_lock,  \* Project.tool_repo_lock: the task that holds it
  access      \* history: the last task to use tools.json and the lock's owner then

\* the dispatcher's and the chunk reassembler's variables
dvars == <<tasks, wreq, sent>>
cvars == <<table, staged, up, dropped>>

\* the rolling tools registry and its lock
tvars == <<tools_json, tool_repo_lock, access>>

vars ==
  <<gen, built, frames, wcaps, current, nbuilds, state, recorded, dpc, status, exit_code,
    received, failed, event, solver, queue, enqueued, wk, intake, reply, cmdloop,
    tasks, wreq, sent, table, staged, up, dropped, heap, tools_json,
    tool_repo_lock, access>>

Builds == 1..MaxBuilds

\* the tools of the registry and the versions a graph may give them
Tools == {"t", "u", "v"}
Versions == 1..MaxVersion
NoVersion == 0
NoAccess == [task |-> "none", owner |-> "none"]

\* no call of Job.fail is in progress
NoFrames == [stack |-> <<>>, k |-> 0, before |-> <<>>, cascades |-> <<>>]

NoJobs == [j \in {} |-> WAITING]
NoCodes == [j \in {} |-> NoExitCode]
NoBits == [a \in {} |-> FALSE]

SolverOff == [pc |-> "off", idx |-> 0, some_waiting |-> FALSE, item |-> "none"]
IdleWorker ==
  [st |-> "idle", build |-> 0, job |-> "none", pending |-> {}, reported |-> {}]
IntakeIdle == [art |-> "none", build |-> 0]

\* routing ids: one per socket a worker opens
Rids == Workers \X (1..MaxConn)

\* no job_handling_coroutine for a routing id; a worker that has sent no
\* request on its first socket
NoTask == [pc |-> "none", left |-> 0]
NoRequest == [conn |-> 1, polling |-> FALSE, left |-> 0]

\* ChunkMessage.last_hash of a stream's first chunk (b"initial"); every
\* digest is a non-empty sequence (see digest below)
Initial == <<>>

\* cmd_chunk.table = {}
NoTable == [k \in {} |-> 0]

\* a worker that is not uploading: no artifact, no chunks left to send, the
\* chain at its start, no staging file
NoUpload ==
  [art |-> "none", file |-> <<>>, rest |-> <<>>, last_hash |-> Initial, store |-> 0]

\* a Build before set_graph: no Artifact object, no job, empty sets;
\* job_val is the Job under construction, raised the RuntimeError
NoJobVal ==
  [unstable |-> FALSE, capabilities |-> {}, deps |-> <<>>, products |-> <<>>,
   status |-> WAITING]

NoGraph ==
  [objs |-> <<>>, jobs |-> <<>>, order |-> <<>>, tool_set |-> <<>>,
   pkg_set |-> <<>>, file_set |-> <<>>, arch_set |-> {}, job_val |-> NoJobVal,
   raised |-> FALSE, returned |-> FALSE]

\* build.jobs.items() in insertion order; the graph's static fields
JobNames == DOMAIN status
Order == IF JobNames = {} THEN <<>> ELSE gen.order
unstable(j) == gen.job[j].unstable
deps(j) == gen.job[j].deps
products(j) == gen.job[j].products
capabilities(j) == gen.job[j].capabilities
Range(s) == {s[i] : i \in DOMAIN s}

(* --------------------------- Build.set_graph -------------------------- *)
\* the values of Artifact.architecture: the string of the graph's entry,
\* None for a FILE, or the list that takes the place of "noarch"
Str(x) == [type |-> "str", value |-> <<x>>]
List(l) == [type |-> "list", value |-> l]
None == [type |-> "NoneType", value |-> <<>>]

\* Artifact(kind, name, version, architecture): received and failed are False
Artifact(kind, name, architecture) ==
  [kind |-> kind, name |-> name, architecture |-> architecture,
   received |-> FALSE, failed |-> FALSE]

\* the dict _handle_artifact selects for a kind
aset_of(kind) ==
  CASE kind = "TOOL" -> "tool_set"
    [] kind = "PACKAGE" -> "pkg_set"
    [] kind = "FILE" -> "file_set"

\* list(arch_set)
RECURSIVE list(_)
list(S) ==
  IF S = {} THEN <<>>
  ELSE LET x == CHOOSE y \in S : TRUE IN <<x>> \o list(S \ {x})

\* a lookup that never finds the name: every entry gets an object of its own
known_never(aset, name) == FALSE

\* `name in aset`
known(aset, name) == name \in DOMAIN aset

\* an architecture test that accepts every architecture
foreign_never(arch_set, ta) == FALSE

\* `bool(arch_set) and ta not in arch_set`
foreign(arch_set, ta) == arch_set # {} /\ ta \notin arch_set

\* _handle_artifact, first statement: a new Artifact under a new name
the_artifact(g, b, aset, name) ==
  IF known(b[aset], name) THEN b
  ELSE [b EXCEPT
          !.objs = Append(@, Artifact(g.kind[name], name, Str(g.architecture[name]))),
          ![aset] = (name :> (Len(b.objs) + 1)) @@ @]

\* reqset.append(aset[name])
append_to(b, reqset, aset, name) ==
  [b EXCEPT !.job_val[reqset] = Append(@, b[aset][name])]

\* the test of ta = aset[name].architecture against arch_set
check_architecture(b, ta) ==
  IF ta = Str("noarch") THEN b
  ELSE IF foreign(b.arch_set, ta.value[1]) THEN [b EXCEPT !.raised = TRUE]
  ELSE [b EXCEPT !.arch_set = @ \cup {ta.value[1]}]

architecture_of(b, aset, name) == check_architecture(b, b.objs[b[aset][name]].architecture)

\* _handle_artifact(kind, reqset, x) for a tool or package entry: a new
\* Artifact if the name is new, the object appended to the job's deps or
\* products, then the architecture test on the object's architecture
handle_artifact(g, b, reqset, name) ==
  architecture_of(
    append_to(the_artifact(g, b, aset_of(g.kind[name]), name),
              reqset, aset_of(g.kind[name]), name),
    aset_of(g.kind[name]), name)

\* a file product whose new Artifact is received from the start
handle_file_received(b, fname) ==
  [b EXCEPT !.objs = Append(@, [Artifact("FILE", fname, None) EXCEPT !.received = TRUE]),
            !.job_val.products = Append(@, Len(b.objs) + 1),
            !.file_set = (fname :> (Len(b.objs) + 1)) @@ @]

\* a file product: always a new Artifact, which takes the name in file_set
handle_file(b, fname) ==
  [b EXCEPT !.objs = Append(@, Artifact("FILE", fname, None)),
            !.job_val.products = Append(@, Len(b.objs) + 1),
            !.file_set = (fname :> (Len(b.objs) + 1)) @@ @]

\* the entries of one list of the graph, in order, until one raises
RECURSIVE handle_each(_, _, _, _)
handle_each(g, b, reqset, names) ==
  IF names = <<>> \/ b.raised THEN b
  ELSE handle_each(g,
         IF g.kind[Head(names)] = "FILE" THEN handle_file(b, Head(names))
         ELSE handle_artifact(g, b, reqset, Head(names)),
         reqset, Tail(names))

\* the entries of a kind among the names of a job's deps or products
OfKind(g, names, kind) == SelectSeq(names, LAMBDA n : g.kind[n] = kind)

\* job_val = Job(unstable=..., capabilities=...)
new_job(g, b, job) ==
  [b EXCEPT !.job_val =
     [unstable |-> g.job[job].unstable, capabilities |-> g.job[job].capabilities,
      deps |-> <<>>, products |-> <<>>, status |-> WAITING]]

\* info["needed"]: tools, then pkgs
needed(g, b, job) ==
  handle_each(g, b, "deps",
    OfKind(g, g.job[job].deps, "TOOL") \o OfKind(g, g.job[job].deps, "PACKAGE"))

\* info["products"]: tools, pkgs, then files
produced(g, b, job) ==
  handle_each(g, b, "products",
    OfKind(g, g.job[job].products, "TOOL") \o OfKind(g, g.job[job].products, "PACKAGE")
      \o OfKind(g, g.job[job].products, "FILE"))

\* if info["up2date"]: the status, and the bits through the job's products
mark_up2date(b) ==
  [b EXCEPT !.job_val.status = UP_TO_DATE,
            !.objs = [i \in DOMAIN b.objs |->
                        IF i \in Range(b.job_val.products)
                          THEN [b.objs[i] EXCEPT !.received = TRUE, !.failed = FALSE]
                          ELSE b.objs[i]]]

\* self.jobs[job] = job_val
store_job(b, job) ==
  [b EXCEPT !.jobs = (job :> b.job_val) @@ @, !.order = Append(@, job)]

\* the end of a turn, unless an entry raised
end_of_job(g, b, job) ==
  IF b.raised THEN b
  ELSE IF g.job[job].up2date THEN store_job(mark_up2date(b), job)
  ELSE store_job(b, job)

\* one turn of set_graph's loop
set_graph_job(g, b, job) ==
  end_of_job(g, produced(g, needed(g, new_job(g, b, job), job), job), job)

RECURSIVE set_graph_jobs(_, _, _)
set_graph_jobs(g, b, todo) ==
  IF todo = <<>> \/ b.raised THEN b
  ELSE set_graph_jobs(g, set_graph_job(g, b, Head(todo)), Tail(todo))

\* the loop over tools.values() and pkgs.values() at the end of set_graph:
\* "noarch" becomes list(arch_set)
replace_noarch(b) ==
  [b EXCEPT !.objs =
     [i \in DOMAIN b.objs |->
        IF i \in Range(b.tool_set) \cup Range(b.pkg_set)
           /\ b.objs[i].architecture = Str("noarch")
          THEN [b.objs[i] EXCEPT !.architecture = List(list(b.arch_set))]
          ELSE b.objs[i]],
     !.returned = TRUE]

\* the end of set_graph, unless an entry raised
end_of_graph(b) == IF b.raised THEN b ELSE replace_noarch(b)

\* Build.set_graph(project, revision, graph, commits_object) on a new Build
Build_set_graph(g) == end_of_graph(set_graph_jobs(g, NoGraph, g.order))

\* the Artifact that a name stands for in tool_set, pkg_set or file_set
in_sets(b, name) ==
  IF name \in DOMAIN b.tool_set THEN b.objs[b.tool_set[name]]
  ELSE IF name \in DOMAIN b.pkg_set THEN b.objs[b.pkg_set[name]]
  ELSE b.objs[b.file_set[name]]

\* the solver holds the processor: no other task runs until it blocks
Busy == solver.pc = "scan"

InitWith(graphs) ==
  /\ \E c \in Configs(graphs) : gen = c[1] /\ built = Build_set_graph(c[1]) /\ wcaps = c[2]
  /\ frames = NoFrames
  /\ current = 0
  /\ nbuilds = 0
  /\ state = [b \in Builds |-> "NONE"]
  /\ recorded = [b \in Builds |-> "none"]
  /\ dpc = "none"
  /\ status = NoJobs
  /\ exit_code = NoCodes
  /\ received = NoBits
  /\ failed = NoBits
  /\ event = FALSE
  /\ solver = SolverOff
  /\ queue = <<>>
  /\ enqueued = {}
  /\ wk = [w \in Workers |-> IdleWorker]
  /\ intake = IntakeIdle
  /\ reply = 0
  /\ cmdloop = [serving |-> TRUE, replies |-> 0]
  /\ tasks = [r \in Rids |-> NoTask]
  /\ wreq = [w \in Workers |-> NoRequest]
  /\ sent = <<>>
  /\ table = NoTable
  /\ staged = <<>>
  /\ up = [w \in Workers |-> NoUpload]
  /\ dropped = Initial
  /\ heap = NoGraph
  /\ tools_json = [x \in Tools |-> NoVersion]
  /\ tool_repo_lock = "none"
  /\ access = NoAccess

\* the coordinator against any sender is explored on the two-job graphs,
\* the coordinator with its workers on every graph
Init == InitWith(SmallGraphs)

WorkerInit == InitWith(GraphSet)

(* --------------------------- command surface -------------------------- *)
\* cmd_build without the test of proj.current
cmd_build_unchecked(name) ==
  /\ ~Busy
  /\ name = ProjectName
  /\ nbuilds < MaxBuilds
  /\ nbuilds' = nbuilds + 1
  /\ current' = nbuilds + 1
  /\ state' = [state EXCEPT ![nbuilds + 1] = "SCHEDULED"]
  /\ dpc' = "sleep"
  /\ status' = NoJobs
  /\ exit_code' = NoCodes
  /\ received' = NoBits
  /\ failed' = NoBits
  /\ event' = FALSE
  /\ enqueued' = {}
  /\ reply' = 204
  /\ UNCHANGED <<gen, built, frames, tvars, wcaps, dvars, cvars, heap, recorded, solver, queue, wk, intake>>

\* cmd_build: 404 for an unknown project, 409 while a build is current,
\* otherwise Build.create and gevent.spawn(run_project)
cmd_build(name) ==
  /\ ~Busy
  /\ IF name # ProjectName
       THEN /\ reply' = 404
            /\ UNCHANGED <<current, nbuilds, state, dpc, status, exit_code,
                           received, failed, event, enqueued>>
       ELSE IF current # 0
         THEN /\ reply' = 409
              /\ UNCHANGED <<current, nbuilds, state, dpc, status, exit_code,
                             received, failed, event, enqueued>>
         ELSE /\ nbuilds < MaxBuilds
              /\ nbuilds' = nbuilds + 1
              /\ current' = nbuilds + 1
              /\ state' = [state EXCEPT ![nbuilds + 1] = "SCHEDULED"]
              /\ dpc' = "sleep"
              /\ status' = NoJobs
              /\ exit_code' = NoCodes
              /\ received' = NoBits
              /\ failed' = NoBits
              /\ event' = FALSE
              /\ enqueued' = {}
              /\ reply' = 204
  /\ UNCHANGED <<gen, built, frames, tvars, wcaps, dvars, cvars, heap, recorded, solver, queue, wk, intake>>

(* ------------------------------ Job.fail ------------------------------ *)
\* Job.fail(graph) on the bits s = [status, received, failed]: the job's own
\* status, then for each product not yet failed: mark it and fail every job
\* of graph.values() that has it among its deps
RECURSIVE fail(_, _), failProducts(_, _, _), failConsumers(_, _, _)
fail(j, s) ==
  failProducts(j, 1,
    [s EXCEPT !.status[j] =
       IF s.status[j] = RUNNING THEN WAITING_FOR_DONE
       ELSE IF unstable(j) THEN IGNORED_FAILURE ELSE FAILED])

\* a cascade that marks the product failed and leaves received alone
failProducts_unreceived(j, i, s) ==
  IF i > Len(products(j)) THEN s
  ELSE LET prod == products(j)[i] IN
       IF s.failed[prod] THEN failProducts(j, i + 1, s)
       ELSE failProducts(j, i + 1,
              failConsumers(prod, 1, [s EXCEPT !.failed[prod] = TRUE]))

failProducts(j, i, s) ==
  IF i > Len(products(j)) THEN s
  ELSE LET prod == products(j)[i] IN
       IF s.failed[prod] THEN failProducts(j, i + 1, s)
       ELSE failProducts(j, i + 1,
              failConsumers(prod, 1,
                [s EXCEPT !.failed[prod] = TRUE, !.received[prod] = TRUE]))

Bits == [status |-> status, received |-> received, failed |-> failed]

\* Job.fail without the descent into the consumers of a product
failConsumers_skipped(prod, k, s) == s

failConsumers(prod, k, s) ==
  IF k > Len(Order) THEN s
  ELSE failConsumers(prod, k + 1,
         IF prod \in Range(deps(Order[k])) THEN fail(Order[k], s) ELSE s)

(* ---------------------------- build driver ---------------------------- *)
\* the names of tool_set, pkg_set and file_set
names_of(b) == DOMAIN b.tool_set \cup DOMAIN b.pkg_set \cup DOMAIN b.file_set

\* a Build as the other tasks see it: Build.jobs and, under each name of
\* its sets, the bits of the name's Artifact
loaded(b) ==
  /\ status' = [j \in DOMAIN b.jobs |-> b.jobs[j].status]
  /\ exit_code' = [j \in DOMAIN b.jobs |-> NoExitCode]
  /\ received' = [a \in names_of(b) |-> in_sets(b, a).received]
  /\ failed' = [a \in names_of(b) |-> in_sets(b, a).failed]

\* build.set_graph(...) in run_project
set_graph == loaded(built)

\* the top of solve_project's loop: clear the event and start over the jobs
StartScan ==
  /\ event' = FALSE
  /\ solver' = [pc |-> "scan", idx |-> 1, some_waiting |-> FALSE, item |-> "none"]

\* run_project with the finally block's update of the build left out
Finish_unfinalized(success) ==
  /\ current' = 0
  /\ UNCHANGED <<state, recorded>>
  /\ dpc' = "done"
  /\ solver' = SolverOff

\* run_project's finally without project.current = None
Finish_attached(success) ==
  /\ current' = current
  /\ state' = [state EXCEPT ![nbuilds] = "DONE"]
  /\ recorded' = [recorded EXCEPT ![nbuilds] = IF success THEN "true" ELSE "false"]
  /\ dpc' = "done"
  /\ solver' = SolverOff

\* run_project's finally (reached by return or by exception, without
\* yielding): detach the build, state DONE, store_status(success=...)
Finish(success) ==
  /\ current' = 0
  /\ state' = [state EXCEPT ![nbuilds] = "DONE"]
  /\ recorded' = [recorded EXCEPT ![nbuilds] = IF success THEN "true" ELSE "false"]
  /\ dpc' = "done"
  /\ solver' = SolverOff

\* run_project after gevent.time.sleep(delay): update_state(FETCH), git
DriverFetch ==
  /\ ~Busy /\ dpc = "sleep"
  /\ state' = [state EXCEPT ![nbuilds] = "FETCH"]
  /\ dpc' = "fetch"
  /\ UNCHANGED <<gen, built, frames, tvars, wcaps, dvars, cvars, heap, enqueued, current, nbuilds, recorded, status, exit_code,
                 received, failed, event, solver, queue, wk, intake, reply, cmdloop>>

\* update_state(SETUP), xbstrap init
DriverSetup ==
  /\ ~Busy /\ dpc = "fetch"
  /\ state' = [state EXCEPT ![nbuilds] = "SETUP"]
  /\ dpc' = "setup"
  /\ UNCHANGED <<gen, built, frames, tvars, wcaps, dvars, cvars, heap, enqueued, current, nbuilds, recorded, status, exit_code,
                 received, failed, event, solver, queue, wk, intake, reply, cmdloop>>

\* if project.mirror_root: update_state(UPDATING_MIRRORS), xbstrap-mirror
DriverMirrors ==
  /\ ~Busy /\ dpc = "setup"
  /\ state' = [state EXCEPT ![nbuilds] = "UPDATING_MIRRORS"]
  /\ dpc' = "mirrors"
  /\ UNCHANGED <<gen, built, frames, tvars, wcaps, dvars, cvars, heap, enqueued, current, nbuilds, recorded, status, exit_code,
                 received, failed, event, solver, queue, wk, intake, reply, cmdloop>>

\* rolling-versions / variable-commits, update_state(CALCULATING),
\* xbstrap-pipeline compute-graph
DriverCalculating ==
  /\ ~Busy /\ dpc \in {"setup", "mirrors"}
  /\ state' = [state EXCEPT ![nbuilds] = "CALCULATING"]
  /\ dpc' = "calc"
  /\ UNCHANGED <<gen, built, frames, tvars, wcaps, dvars, cvars, heap, enqueued, current, nbuilds, recorded, status, exit_code,
                 received, failed, event, solver, queue, wk, intake, reply, cmdloop>>

\* build.set_graph(...), then either the incremental seeding of the build's
\* repositories (which yields in xbps-rindex when a received package is
\* copied) or straight on to update_state(RUNNING) and solve_project
DriverSetGraph(seed) ==
  /\ ~Busy /\ dpc = "calc"
  /\ set_graph
  /\ IF built.raised
       THEN /\ Finish(FALSE)
            /\ UNCHANGED event
       ELSE /\ UNCHANGED <<current, recorded>>
            /\ IF seed /\ \E a \in DOMAIN gen.kind : gen.kind[a] = "PACKAGE" /\ received'[a]
                 THEN /\ state' = [state EXCEPT ![nbuilds] = "SETUP_REPOS"]
                      /\ dpc' = "repos"
                      /\ UNCHANGED <<event, solver>>
                 ELSE /\ state' = [state EXCEPT ![nbuilds] = "RUNNING"]
                      /\ dpc' = "solve"
                      /\ StartScan
  /\ UNCHANGED <<gen, built, frames, tvars, wcaps, dvars, cvars, heap, enqueued, nbuilds, queue, wk, intake, reply, cmdloop>>

\* end of the seeding: update_state(RUNNING), solve_project
DriverRunning ==
  /\ ~Busy /\ dpc = "repos"
  /\ state' = [state EXCEPT ![nbuilds] = "RUNNING"]
  /\ dpc' = "solve"
  /\ StartScan
  /\ UNCHANGED <<gen, built, frames, tvars, wcaps, dvars, cvars, heap, enqueued, current, nbuilds, recorded, status, exit_code,
                 received, failed, queue, wk, intake, reply, cmdloop>>

\* an external command or file operation of the pipeline raises:
\* except Exception, then finally
DriverRaise ==
  /\ ~Busy /\ dpc \in {"sleep", "fetch", "setup", "mirrors", "calc", "repos"}
  /\ Finish(FALSE)
  /\ UNCHANGED <<gen, built, frames, tvars, wcaps, dvars, cvars, heap, enqueued, nbuilds, status, exit_code, received, failed,
                 event, queue, wk, intake, reply, cmdloop>>

(* ------------------------------- solver ------------------------------- *)
\* the loop over job.deps: some dep is failed
dep_failed(name) == \E dep \in Range(deps(name)) : failed[dep]

\* a scan that takes every dep for received
satisfied_unchecked(name) == TRUE

\* the loop over job.deps: every dep is received
satisfied(name) == \A dep \in Range(deps(name)) : received[dep]

\* one iteration of solve_project's for loop, for the job at solver.idx
SolverJob ==
  /\ solver.pc = "scan" /\ solver.idx <= Len(Order)
  /\ LET name == Order[solver.idx]
         promoted ==
           IF (\A x \in Range(products(name)) : received[x]) /\ status[name] = RUNNING
             THEN [status EXCEPT ![name] = WAITING_FOR_DONE] ELSE status
         next == [solver EXCEPT !.idx = @ + 1,
                                !.some_waiting = @ \/ ~terminating(promoted[name])]
     IN
     IF promoted[name] # WAITING
       THEN /\ status' = promoted
            /\ solver' = next
            /\ UNCHANGED <<received, failed, event, queue, enqueued>>
     ELSE IF dep_failed(name)
       THEN LET s == fail(name, Bits) IN
            /\ status' = s.status
            /\ received' = s.received
            /\ failed' = s.failed
            /\ event' = TRUE
            /\ solver' = next
            /\ UNCHANGED <<queue, enqueued>>
     ELSE IF ~satisfied(name)
       THEN /\ solver' = next
            /\ UNCHANGED <<status, received, failed, event, queue, enqueued>>
     ELSE \* dispatch: status RUNNING, store_status, outgoing_job_queue.put
          /\ status' = [status EXCEPT ![name] = RUNNING]
          /\ enqueued' = enqueued \cup {name}
          /\ IF Len(queue) < QueueSize
               THEN /\ queue' = Append(queue, [build |-> nbuilds, job |-> name])
                    /\ solver' = next
               ELSE /\ solver' = [next EXCEPT !.pc = "put", !.idx = solver.idx,
                                              !.item = name]
                    /\ UNCHANGED queue
          /\ UNCHANGED <<received, failed, event>>
  /\ UNCHANGED <<gen, built, frames, tvars, wcaps, dvars, cvars, heap, current, nbuilds, state, recorded, dpc, exit_code,
                 wk, intake, reply, cmdloop>>

\* a dispatch in which store_status raises after the status was set: the
\* exception leaves solve_project and run_project's finally runs
SolverRaise ==
  /\ solver.pc = "scan" /\ solver.idx <= Len(Order)
  /\ LET name == Order[solver.idx] IN
     /\ status[name] = WAITING
     /\ ~dep_failed(name) /\ satisfied(name)
     /\ status' = [status EXCEPT ![name] = RUNNING]
  /\ Finish(FALSE)
  /\ UNCHANGED <<gen, built, frames, tvars, wcaps, dvars, cvars, heap, enqueued, nbuilds, exit_code, received, failed, event,
                 queue, wk, intake, reply, cmdloop>>

\* a put that does not wait for room in the queue
SolverPut_unbounded ==
  /\ solver.pc = "put"
  /\ queue' = Append(queue, [build |-> nbuilds, job |-> solver.item])
  /\ solver' = [solver EXCEPT !.pc = "scan", !.idx = @ + 1, !.item = "none"]
  /\ UNCHANGED <<gen, built, frames, tvars, wcaps, dvars, cvars, heap, enqueued, current, nbuilds, state, recorded, dpc, status,
                 exit_code, received, failed, event, wk, intake, reply, cmdloop>>

\* the blocked Queue.put completes once the queue has room; the scan goes on
SolverPut ==
  /\ solver.pc = "put" /\ Len(queue) < QueueSize
  /\ queue' = Append(queue, [build |-> nbuilds, job |-> solver.item])
  /\ solver' = [solver EXCEPT !.pc = "scan", !.idx = @ + 1, !.item = "none"]
  /\ UNCHANGED <<gen, built, frames, tvars, wcaps, dvars, cvars, heap, enqueued, current, nbuilds, state, recorded, dpc, status,
                 exit_code, received, failed, event, wk, intake, reply, cmdloop>>

\* the four assertions of solve_project
Complete ==
  /\ \A x \in DOMAIN received : received[x]
  /\ \A j \in JobNames : terminating(status[j])

\* after the for loop: return (or raise AssertionError) when no job is
\* non-terminating, else artifact_received.wait(), which returns at once if
\* the event is set
SolverEnd ==
  /\ solver.pc = "scan" /\ solver.idx > Len(Order)
  /\ IF ~solver.some_waiting
       THEN /\ Finish(Complete /\ \A j \in JobNames : successful(status[j]))
            /\ UNCHANGED event
       ELSE /\ IF event
                 THEN StartScan
                 ELSE /\ solver' = [solver EXCEPT !.pc = "wait"]
                      /\ UNCHANGED event
            /\ UNCHANGED <<current, state, recorded, dpc>>
  /\ UNCHANGED <<gen, built, frames, tvars, wcaps, dvars, cvars, heap, enqueued, nbuilds, status, exit_code, received, failed,
                 queue, wk, intake, reply, cmdloop>>

\* a wait that consumes the event and goes on waiting
SolverWake_asleep ==
  /\ solver.pc = "wait" /\ event
  /\ event' = FALSE
  /\ UNCHANGED <<gen, built, frames, tvars, wcaps, dvars, cvars, heap, enqueued, current, nbuilds, state, recorded, dpc, status,
                 exit_code, received, failed, queue, wk, intake, reply, cmdloop, solver>>

\* artifact_received.wait() returns: the next scan starts
SolverWake ==
  /\ solver.pc = "wait" /\ event
  /\ StartScan
  /\ UNCHANGED <<gen, built, frames, tvars, wcaps, dvars, cvars, heap, enqueued, current, nbuilds, state, recorded, dpc, status,
                 exit_code, received, failed, queue, wk, intake, reply, cmdloop>>

(* ------------------------------ cmd_fail ------------------------------ *)
\* the loop of cmd_fail over jobs.values(), from position k
RECURSIVE failWaiting(_, _)
failWaiting(k, s) ==
  IF k > Len(Order) THEN s
  ELSE failWaiting(k + 1,
         IF s.status[Order[k]] = WAITING THEN fail(Order[k], s) ELSE s)

cmd_fail(name) ==
  /\ ~Busy
  /\ IF name # ProjectName
       THEN /\ reply' = 404
            /\ UNCHANGED <<status, received, failed, event>>
       ELSE IF current = 0
         THEN /\ reply' = 409
              /\ UNCHANGED <<status, received, failed, event>>
         ELSE LET s == failWaiting(1, Bits) IN
              /\ status' = s.status
              /\ received' = s.received
              /\ failed' = s.failed
              /\ event' = TRUE
              /\ reply' = 204
  /\ UNCHANGED <<gen, built, frames, tvars, wcaps, dvars, cvars, heap, enqueued, current, nbuilds, state, recorded, dpc, exit_code,
                 solver, queue, wk, intake>>

(* ---------------------------- command_loop ---------------------------- *)
\* command_loop.cmds, and a command frame that is not among them
cmds == {"build", "fail", "status"}
Commands == cmds \cup {"bogus"}

\* argument frames: a packed project name, a msgpack value the command's
\* validator rejects, and bytes msgpack cannot load
Invalid == "invalid"
Garbage == "garbage"
Args == ProjectNames \cup {Invalid, Garbage}

\* an iteration whose only effect is the reply it sends
replied(code) ==
  /\ reply' = code
  /\ UNCHANGED <<gen, built, frames, tvars, wcaps, dvars, cvars, heap, current, nbuilds, state,
                 recorded, dpc, status, exit_code, received, failed, event,
                 solver, queue, enqueued, wk, intake>>

\* the iteration ends in the clause except Exception, which replies 500 and
\* lets the while loop go on
except_Exception_returns == replied(500) /\ cmdloop' = [serving |-> FALSE, replies |-> 1]
except_Exception == replied(500) /\ cmdloop' = [serving |-> TRUE, replies |-> 1]

\* the iteration ends in the clause except V.ValidationError
except_ValidationError == replied(400) /\ cmdloop' = [serving |-> TRUE, replies |-> 1]

\* what a handler raises before it changes anything: msgpack's error on
\* bytes it cannot load (cmd_build in BaseMessage.unpack, cmd_fail in
\* msgpk.loads), the validator's error on a build message of the wrong
\* shape, and, with raises, the error of os.makedirs in Build.create
Unloadable(command, arg) == command \in {"build", "fail"} /\ arg = Garbage
Rejected(command, arg) == command = "build" /\ arg = Invalid
CreateFails(command, arg, raises) ==
  raises /\ command = "build" /\ arg = ProjectName /\ current = 0

\* one iteration of command_loop: recv_multipart, the handler, and the one
\* send_multipart of the path taken
command_loop(command, arg, raises) ==
  /\ cmdloop.serving
  /\ ~Busy
  /\ raises => CreateFails(command, arg, raises)
  /\ IF command \notin cmds
       THEN replied(400) /\ cmdloop' = [serving |-> TRUE, replies |-> 1]
     ELSE IF command = "status"
       THEN replied(200) /\ cmdloop' = [serving |-> TRUE, replies |-> 1]
     ELSE IF Unloadable(command, arg) \/ CreateFails(command, arg, raises)
       THEN except_Exception
     ELSE IF Rejected(command, arg)
       THEN except_ValidationError
     ELSE /\ IF command = "build" THEN cmd_build(arg) ELSE cmd_fail(arg)
          /\ cmdloop' = [serving |-> TRUE, replies |-> 1]

\* recv_multipart raises zmq.ZMQError: the loop logs and returns
command_loop_aborts ==
  /\ cmdloop.serving
  /\ cmdloop' = [cmdloop EXCEPT !.serving = FALSE]
  /\ UNCHANGED <<gen, built, frames, tvars, wcaps, dvars, cvars, heap, current, nbuilds, state,
                 recorded, dpc, status, exit_code, received, failed, event,
                 solver, queue, enqueued, wk, intake, reply>>

(* ------------------------------- intake ------------------------------- *)
\* cmd_artifact without artifact_received.set() on the paths that fail
cmd_artifact_quiet(a, success, deposit_ok) ==
  IF current = 0 \/ a \notin DOMAIN received
    THEN UNCHANGED <<received, failed, event, intake>>
    ELSE /\ received' = [received EXCEPT ![a] = TRUE]
         /\ failed' = [failed EXCEPT ![a] = ~(success /\ deposit_ok)]
         /\ IF success /\ deposit_ok /\ gen.kind[a] = "PACKAGE"
              THEN /\ intake' = [art |-> a, build |-> current]
                   /\ UNCHANGED event
              ELSE /\ event' = (success /\ deposit_ok)
                   /\ UNCHANGED intake

\* cmd_artifact up to its first yield.  deposit_ok = FALSE: the chunk table
\* lookup or the move raises (the artifact ends failed).  A package deposit
\* yields in xbps-rindex: the intake task stays suspended in it
cmd_artifact(a, success, deposit_ok) ==
  IF current = 0 \/ a \notin DOMAIN received
    THEN UNCHANGED <<received, failed, event, intake>>
    ELSE /\ received' = [received EXCEPT ![a] = TRUE]
         /\ failed' = [failed EXCEPT ![a] = ~(success /\ deposit_ok)]
         /\ IF success /\ deposit_ok /\ gen.kind[a] = "PACKAGE"
              THEN /\ intake' = [art |-> a, build |-> current]
                   /\ UNCHANGED event
              ELSE /\ event' = TRUE
                   /\ UNCHANGED intake

\* a completion that reports every failure as FAILED
terminal_status_stable(j, code) == IF code = 0 THEN SUCCESS ELSE FAILED

\* a completion that reports every failure as IGNORED_FAILURE
terminal_status_unstable(j, code) == IF code = 0 THEN SUCCESS ELSE IGNORED_FAILURE

\* a completion that sets a job that exited non-zero back to WAITING
terminal_status_retried(j, code) == IF code = 0 THEN SUCCESS ELSE WAITING

\* cmd_job: the status for the message's exit code
terminal_status(j, code) ==
  IF code = 0 THEN SUCCESS
  ELSE IF unstable(j) THEN IGNORED_FAILURE ELSE FAILED

\* cmd_job: no current build: return; else status from the exit code,
\* exit_code, artifact_received.set()
cmd_job(j, code) ==
  IF current = 0 \/ j \notin JobNames
    THEN UNCHANGED <<status, exit_code, event>>
    ELSE /\ status' = [status EXCEPT ![j] = terminal_status(j, code)]
         /\ exit_code' = [exit_code EXCEPT ![j] = code]
         /\ event' = TRUE

\* the suspended package deposit ends (index, copy to rolling, sign): an
\* exception marks the artifact failed; the build's event is set
ArtifactDeposited(deposit_ok) ==
  /\ ~Busy /\ intake.art # "none"
  /\ intake' = IntakeIdle
  /\ IF intake.build = nbuilds
       THEN /\ failed' = IF deposit_ok THEN failed
                         ELSE [failed EXCEPT ![intake.art] = TRUE]
            /\ event' = TRUE
       ELSE UNCHANGED <<failed, event>>
  /\ UNCHANGED <<gen, built, frames, tvars, wcaps, dvars, cvars, heap, enqueued, current, nbuilds, state, recorded, dpc, status,
                 exit_code, received, solver, queue, wk, reply, cmdloop>>

\* an artifact message that no running worker of the model sent (a stale,
\* repeated or foreign message on the intake socket)
IntakeArtifact(a, success, deposit_ok) ==
  /\ ~Busy /\ intake.art = "none"
  /\ cmd_artifact(a, success, deposit_ok)
  /\ UNCHANGED <<gen, built, frames, tvars, wcaps, dvars, cvars, heap, enqueued, current, nbuilds, state, recorded, dpc, status,
                 exit_code, solver, queue, wk, reply, cmdloop>>

\* a job completion message that no running worker of the model sent
IntakeJob(j, code) ==
  /\ ~Busy /\ intake.art = "none"
  /\ cmd_job(j, code)
  /\ UNCHANGED <<gen, built, frames, tvars, wcaps, dvars, cvars, heap, enqueued, current, nbuilds, state, recorded, dpc, received,
                 failed, solver, queue, wk, intake, reply, cmdloop>>

(* ------------------------- dispatch and workers ----------------------- *)
\* job_handling_coroutine serving worker w's JobRequest: get the queued
\* (caps, job) and, as caps is within the request's capabilities, send it
Dispatch(w) ==
  /\ ~Busy /\ queue # <<>>
  /\ capabilities(Head(queue).job) \subseteq wcaps[w]
  /\ queue' = Tail(queue)
  /\ UNCHANGED <<gen, built, frames, tvars, wcaps, dvars, cvars, heap, enqueued, current, nbuilds, state, recorded, dpc,
                 status, exit_code, received, failed, event, solver, intake, reply, cmdloop>>

\* the job is dispatched to a worker that was waiting for it:
\* process_job_msg, run_job with every product of the JobMessage pending
Deliver(w) ==
  /\ wk[w].st = "idle"
  /\ Dispatch(w)
  /\ wk' = [wk EXCEPT ![w] =
              [st |-> "run", build |-> Head(queue).build, job |-> Head(queue).job,
               pending |-> Range(products(Head(queue).job)),
               reported |-> {}]]

\* run_job reports one product: upload (success) or send_fail
WorkerArtifact(w, a, success, deposit_ok) ==
  /\ ~Busy /\ intake.art = "none"
  /\ wk[w].st = "run" /\ a \in wk[w].pending
  /\ cmd_artifact(a, success, deposit_ok)
  /\ wk' = [wk EXCEPT ![w].pending = @ \ {a}, ![w].reported = @ \cup {a}]
  /\ UNCHANGED <<gen, built, frames, tvars, wcaps, dvars, cvars, heap, enqueued, current, nbuilds, state, recorded, dpc, status,
                 exit_code, solver, queue, reply, cmdloop>>

\* run_job's finally, once every product is reported: JobCompletionMessage
WorkerCompletion(w, code) ==
  /\ ~Busy /\ intake.art = "none"
  /\ wk[w].st = "run" /\ wk[w].pending = {}
  /\ cmd_job(wk[w].job, code)
  /\ wk' = [wk EXCEPT ![w] = IdleWorker]
  /\ UNCHANGED <<gen, built, frames, tvars, wcaps, dvars, cvars, heap, enqueued, current, nbuilds, state, recorded, dpc, received,
                 failed, solver, queue, intake, reply, cmdloop>>

\* an upload task of run_job raises something other than FileNotFoundError
\* before its artifact message is sent (the file cannot be opened or read):
\* the finally of _run_and_pop still removes the product from the set that
\* run_job's cleanup pass reports as failed
upload_raises(w, a) ==
  /\ wk[w].st = "run" /\ a \in wk[w].pending
  /\ wk' = [wk EXCEPT ![w].pending = @ \ {a}]
  /\ UNCHANGED <<gen, built, frames, tvars, wcaps, dvars, cvars, heap, enqueued, current, nbuilds, state,
                 recorded, dpc, status, exit_code, received, failed, event,
                 solver, queue, intake, reply, cmdloop>>

\* shutil.rmtree in run_job's finally raises something other than
\* FileNotFoundError: the exception leaves run_job before the cleanup pass
\* and the completion message; main logs it and requests the next job
rmtree_raises(w) ==
  /\ wk[w].st = "run"
  /\ wk' = [wk EXCEPT ![w] = IdleWorker]
  /\ UNCHANGED <<gen, built, frames, tvars, wcaps, dvars, cvars, heap, enqueued, current, nbuilds, state,
                 recorded, dpc, status, exit_code, received, failed, event,
                 solver, queue, intake, reply, cmdloop>>

(* --------------------------- specifications --------------------------- *)
\* the coordinator's own tasks: command loop, build driver and solver, and
\* the end of a suspended deposit
CoordNext ==
  \/ command_loop("build", ProjectName, FALSE)
  \/ command_loop("fail", ProjectName, FALSE)
  \/ DriverFetch
  \/ DriverSetup
  \/ DriverMirrors
  \/ DriverCalculating
  \/ \E seed \in BOOLEAN : DriverSetGraph(seed)
  \/ DriverRunning
  \/ DriverRaise
  \/ SolverJob
  \/ SolverRaise
  \/ SolverPut
  \/ SolverEnd
  \/ SolverWake
  \/ \E ok \in BOOLEAN : ArtifactDeposited(ok)

\* the coordinator with workers that follow run_job and nothing else on
\* the intake socket
WorkerNext ==
  \/ CoordNext
  \/ \E w \in Workers : Deliver(w)
  \/ \E w \in Workers, a \in DOMAIN gen.kind, success \in BOOLEAN, ok \in BOOLEAN :
       WorkerArtifact(w, a, success, ok)
  \/ \E w \in Workers, code \in ExitCodes : WorkerCompletion(w, code)

\* the coordinator against any sender: jobs leave the queue for a worker
\* whose capabilities match, and any message may arrive on the intake socket
Next ==
  \/ CoordNext
  \/ \E w \in Workers : Dispatch(w) /\ UNCHANGED wk
  \/ \E a \in DOMAIN gen.kind, success \in BOOLEAN, ok \in BOOLEAN :
       IntakeArtifact(a, success, ok)
  \/ \E j \in DOMAIN gen.job, code \in ExitCodes : IntakeJob(j, code)

Spec == Init /\ [][Next]_vars

WorkerSpec == WorkerInit /\ [][WorkerNext]_vars

\* the steps of the run_project greenlet (driver and solver) that complete
\* on their own: gevent runs a greenlet once it is runnable
DriverStep ==
  \/ DriverFetch
  \/ DriverSetup
  \/ DriverCalculating
  \/ \E seed \in BOOLEAN : DriverSetGraph(seed)
  \/ DriverRunning
  \/ SolverJob
  \/ SolverPut
  \/ SolverEnd
  \/ SolverWake

\* the steps of the intake and of live workers: a worker that asked for a
\* job takes it, reports each product and then the completion (run_job's
\* finally), and a suspended deposit ends
WorkerStep ==
  \/ \E ok \in BOOLEAN : ArtifactDeposited(ok)
  \/ \E w \in Workers : Deliver(w)
  \/ \E w \in Workers, a \in DOMAIN gen.kind, success \in BOOLEAN, ok \in BOOLEAN :
       WorkerArtifact(w, a, success, ok)
  \/ \E w \in Workers, code \in ExitCodes : WorkerCompletion(w, code)

\* the coordinator with live workers under gevent's scheduling: a step that
\* is runnable again and again is taken (the solver's scan holds the
\* processor only for a bounded number of steps)
LiveSpec == WorkerSpec /\ SF_vars(DriverStep) /\ SF_vars(WorkerStep)

(* --------------------------- dispatcher tasks ------------------------- *)
\* the worker a routing id belongs to; the router can reach a routing id
\* while the worker still polls on the socket it names
Owner(r) == r[1]

\* a router that never reports a routing id unreachable
reachable_always(r) == TRUE

reachable(r) == wreq[Owner(r)].conn = r[2] /\ wreq[Owner(r)].polling

\* a dispatcher that sends whatever it took from the queue
compatible_any(item, r) == TRUE

\* caps.issubset(request.capabilities)
compatible(item, r) == capabilities(item.job) \subseteq wcaps[Owner(r)]

\* a task that keeps the tuple instead of putting it back
requeue_dropped(q) == Tail(q)

\* a put of the tuple by a task that has not taken it off the queue
requeue_twice(q) == Append(q, Head(q))

\* outgoing_job_queue.put((caps, job)) by the task that has just taken the
\* head of q: the queue has room, the tuple goes to its end
requeue(q) == Append(Tail(q), Head(q))

\* the worker's main loop: jobs.send(job_request), then jobs.poll(90000);
\* job_pull_loop receives the request and spawns a job_handling_coroutine
Request(w) ==
  /\ ~Busy
  /\ wk[w].st = "idle" /\ ~wreq[w].polling
  /\ wreq' = [wreq EXCEPT ![w].polling = TRUE, ![w].left = PollTimeout]
  /\ tasks' = [tasks EXCEPT ![<<w, wreq[w].conn>>] = [pc |-> "ready", left |-> 0]]
  /\ UNCHANGED <<gen, built, frames, tvars, wcaps, cvars, heap, current, nbuilds, state, recorded, dpc, status,
                 exit_code, received, failed, event, solver, queue, enqueued, wk,
                 intake, reply, cmdloop, sent>>

\* one run of job_handling_coroutine from its get to the point where it
\* blocks or returns.  It runs when it was spawned, when its sleep is over,
\* and when it waits in get and the queue has an item.  On an empty queue it
\* waits in get; caps not within the request's capabilities: put back and
\* sleep; else send_multipart: the job reaches the worker, or the router
\* raises EHOSTUNREACH and the job is put back
TaskGet(r) ==
  /\ ~Busy
  /\ \/ tasks[r].pc \in {"ready", "sleep"}
     \/ tasks[r].pc = "get" /\ queue # <<>>
  /\ IF queue = <<>>
       THEN /\ tasks' = [tasks EXCEPT ![r] = [pc |-> "get", left |-> GetTimeout]]
            /\ UNCHANGED <<queue, sent, wk, wreq>>
     ELSE IF ~compatible(Head(queue), r)
       THEN /\ queue' = requeue(queue)
            /\ tasks' = [tasks EXCEPT ![r] = [pc |-> "sleep", left |-> 1]]
            /\ UNCHANGED <<sent, wk, wreq>>
     ELSE IF reachable(r)
       THEN /\ queue' = Tail(queue)
            /\ tasks' = [tasks EXCEPT ![r] = NoTask]
            /\ sent' = Append(sent, [build |-> Head(queue).build,
                                     job |-> Head(queue).job, to |-> Owner(r),
                                     ok |-> TRUE])
            /\ wreq' = [wreq EXCEPT ![Owner(r)].polling = FALSE]
            /\ wk' = [wk EXCEPT ![Owner(r)] =
                        [st |-> "run", build |-> Head(queue).build,
                         job |-> Head(queue).job,
                         pending |-> Range(products(Head(queue).job)),
               reported |-> {}]]
       ELSE /\ queue' = requeue(queue)
            /\ tasks' = [tasks EXCEPT ![r] = NoTask]
            /\ sent' = Append(sent, [build |-> Head(queue).build,
                                     job |-> Head(queue).job, to |-> Owner(r),
                                     ok |-> FALSE])
            /\ UNCHANGED <<wk, wreq>>
  /\ UNCHANGED <<gen, built, frames, tvars, wcaps, cvars, heap, current, nbuilds, state, recorded, dpc, status,
                 exit_code, received, failed, event, solver, enqueued, intake, reply, cmdloop>>

\* get raises Empty after the timeout: the heartbeat (an empty message) is
\* sent and the task returns; a worker that receives it sends its next request
Heartbeat(r) ==
  /\ ~Busy
  /\ tasks[r].pc = "get" /\ tasks[r].left = 0
  /\ tasks' = [tasks EXCEPT ![r] = NoTask]
  /\ wreq' = IF reachable(r) THEN [wreq EXCEPT ![Owner(r)].polling = FALSE] ELSE wreq
  /\ UNCHANGED <<gen, built, frames, tvars, wcaps, cvars, heap, current, nbuilds, state, recorded, dpc, status,
                 exit_code, received, failed, event, solver, queue, enqueued, wk,
                 intake, reply, cmdloop, sent>>

\* jobs.poll(90000) returns 0: the worker drops its socket, opens the next
\* one and sends its request on it; the task of the old routing id stays
Reconnect(w) ==
  /\ ~Busy
  /\ wreq[w].polling /\ wreq[w].left = 0
  /\ wreq[w].conn < MaxConn
  /\ wreq' = [wreq EXCEPT ![w].conn = @ + 1, ![w].left = PollTimeout]
  /\ tasks' = [tasks EXCEPT ![<<w, wreq[w].conn + 1>>] = [pc |-> "ready", left |-> 0]]
  /\ UNCHANGED <<gen, built, frames, tvars, wcaps, cvars, heap, current, nbuilds, state, recorded, dpc, status,
                 exit_code, received, failed, event, solver, queue, enqueued, wk,
                 intake, reply, cmdloop, sent>>

\* a unit of time passes: only when no task is runnable and no timeout is
\* due (gevent runs what is runnable before it waits for timers); the sleep
\* of one second is over before a second unit passes
Tick ==
  /\ ~Busy
  /\ \A r \in Rids :
        /\ tasks[r].pc # "ready"
        /\ tasks[r].pc = "get" => tasks[r].left > 0 /\ queue = <<>>
        /\ tasks[r].pc = "sleep" => tasks[r].left > 0
  /\ \A w \in Workers : wreq[w].polling => wreq[w].left > 0
  /\ \/ \E r \in Rids : tasks[r].pc # "none"
     \/ \E w \in Workers : wreq[w].polling
  /\ tasks' = [r \in Rids |->
                 IF tasks[r].pc \in {"get", "sleep"}
                   THEN [tasks[r] EXCEPT !.left = @ - 1] ELSE tasks[r]]
  /\ wreq' = [w \in Workers |->
                IF wreq[w].polling THEN [wreq[w] EXCEPT !.left = @ - 1] ELSE wreq[w]]
  /\ UNCHANGED <<gen, built, frames, tvars, wcaps, cvars, heap, current, nbuilds, state, recorded, dpc, status,
                 exit_code, received, failed, event, solver, queue, enqueued, wk,
                 intake, reply, cmdloop, sent>>

\* one build: the state in which the build command has just been answered
BuildRequested(graphs) ==
  /\ \E c \in Configs(graphs) : gen = c[1] /\ built = Build_set_graph(c[1]) /\ wcaps = c[2]
  /\ frames = NoFrames
  /\ current = 1
  /\ nbuilds = 1
  /\ state = [b \in Builds |-> IF b = 1 THEN "SCHEDULED" ELSE "NONE"]
  /\ recorded = [b \in Builds |-> "none"]
  /\ dpc = "sleep"
  /\ status = NoJobs
  /\ exit_code = NoCodes
  /\ received = NoBits
  /\ failed = NoBits
  /\ event = FALSE
  /\ solver = SolverOff
  /\ queue = <<>>
  /\ enqueued = {}
  /\ wk = [w \in Workers |-> IdleWorker]
  /\ intake = IntakeIdle
  /\ reply = 204
  /\ cmdloop = [serving |-> TRUE, replies |-> 1]
  /\ tasks = [r \in Rids |-> NoTask]
  /\ wreq = [w \in Workers |-> NoRequest]
  /\ sent = <<>>
  /\ table = NoTable
  /\ staged = <<>>
  /\ up = [w \in Workers |-> NoUpload]
  /\ dropped = Initial
  /\ heap = NoGraph
  /\ tools_json = [x \in Tools |-> NoVersion]
  /\ tool_repo_lock = "none"
  /\ access = NoAccess

\* the coordinator with its dispatcher tasks and with workers that request,
\* poll, reconnect and run jobs, on the graph of two independent jobs
DispatchInit == BuildRequested({ForkGraph({"c"}), ForkGraph({})})

DispatchNext ==
  \/ command_loop("fail", ProjectName, FALSE)
  \/ DriverFetch
  \/ DriverSetup
  \/ DriverCalculating
  \/ \E seed \in BOOLEAN : DriverSetGraph(seed)
  \/ DriverRaise
  \/ SolverJob
  \/ SolverRaise
  \/ SolverPut
  \/ SolverEnd
  \/ SolverWake
  \/ \E ok \in BOOLEAN : ArtifactDeposited(ok)
  \/ \E w \in Workers : Request(w)
  \/ \E r \in Rids : TaskGet(r)
  \/ \E r \in Rids : Heartbeat(r)
  \/ \E w \in Workers : Reconnect(w)
  \/ Tick
  \/ \E w \in Workers, a \in DOMAIN gen.kind, success \in BOOLEAN, ok \in BOOLEAN :
       WorkerArtifact(w, a, success, ok)
  \/ \E w \in Workers, code \in ExitCodes : WorkerCompletion(w, code)

DispatchSpec == DispatchInit /\ [][DispatchNext]_vars

\* under gevent a runnable task runs: the solver, each dispatcher task and
\* its timeout; a worker that got a reply sends its next request, one whose
\* poll ran out reconnects; and time passes.  The fail command, which sets
\* the solver scanning again each time, is not given forever
DispatchLive ==
  /\ DispatchSpec
  /\ <>[][~command_loop("fail", ProjectName, FALSE)]_vars
  /\ WF_vars(DriverStep)
  /\ \A r \in Rids : WF_vars(TaskGet(r)) /\ WF_vars(Heartbeat(r))
  /\ \A w \in Workers : WF_vars(Request(w)) /\ WF_vars(Reconnect(w))
  /\ WF_vars(Tick)

(* --------------------------- chunk reassembly ------------------------- *)
\* the bytes of a product file, and the files a job may have built
Bytes == {"a", "b"}
Files == UNION {[1..n -> Bytes] : n \in 0..MaxFileLen}

\* upload's loop of toupload.read(CHUNK_SIZE): the data of the chunks of S
RECURSIVE chunks(_)
chunks(S) ==
  IF S = <<>> THEN <<>>
  ELSE IF Len(S) <= ChunkSize THEN <<S>>
  ELSE <<SubSeq(S, 1, ChunkSize)>> \o chunks(SubSeq(S, ChunkSize + 1, Len(S)))

\* msgs.ChunkMessage(last_hash, data)
ChunkMessage(last_hash, data) == [last_hash |-> last_hash, data |-> data]

\* blake2b(value).digest() of a packed chunk message, taken as free of
\* collisions: the digest determines the message's data and last_hash, and
\* so the data of every chunk of the chain before it
digest(m) == Append(m.last_hash, m.data)

\* the bytes of a chain of chunks
RECURSIVE Flatten(_)
Flatten(c) == IF c = <<>> THEN <<>> ELSE Head(c) \o Flatten(Tail(c))

\* tempfile.mkstemp and blake2b(): an empty staging file, a fresh hasher
NewStore == [file |-> <<>>, hasher |-> <<>>]

\* the store cmd_chunk uses for m: a new one, or the one under m.last_hash
store_of(m) ==
  IF m.last_hash = Initial THEN Len(staged) + 1 ELSE table[m.last_hash]

\* cmd_chunk that writes the data before it fed the hasher with the data of
\* the whole file so far
hashed_twice(store, data) == store.hasher \o store.file \o data

\* store[2].update(chunk.data)
hashed(store, data) == store.hasher \o data

\* cmd_chunk's elif: the chunk's last_hash is neither "initial" nor a key
unknown(m) == m.last_hash # Initial /\ m.last_hash \notin DOMAIN table

\* cmd_chunk: "initial" opens a store; an unknown last_hash drops the chunk;
\* else the store moves from the key last_hash to the key of this message's
\* digest, and the data goes to its hasher and its file
cmd_chunk(m) ==
  IF unknown(m)
    THEN /\ dropped' = digest(m)
         /\ UNCHANGED <<table, staged>>
    ELSE LET i == store_of(m)
             stores == IF m.last_hash = Initial THEN Append(staged, NewStore)
                       ELSE staged
         IN /\ table' = [k \in (DOMAIN table \ {m.last_hash}) \cup {digest(m)} |->
                           IF k = digest(m) THEN i ELSE table[k]]
            /\ staged' = [stores EXCEPT ![i] =
                            [file |-> stores[i].file \o m.data,
                             hasher |-> hashed(stores[i], m.data)]]
            /\ UNCHANGED dropped

\* message.last_hash is a key of cmd_chunk.table
found(h) == h \in DOMAIN table

\* cmd_artifact for an ArtifactMessage with its last_hash: a successful
\* message looks the store up (a KeyError ends in the outer except, like a
\* failed deposit) and deletes the entry
cmd_artifact_msg(a, success, h, move_ok) ==
  /\ cmd_artifact(a, success, found(h) /\ move_ok)
  /\ table' = IF current # 0 /\ a \in DOMAIN received /\ success /\ h \in DOMAIN table
                THEN [k \in DOMAIN table \ {h} |-> table[k]]
                ELSE table

\* upload opens the product file: S is what the job built
UploadOpen(w, a, S) ==
  /\ ~Busy
  /\ wk[w].st = "run" /\ a \in wk[w].pending /\ up[w].art = "none"
  /\ up' = [up EXCEPT ![w] = [art |-> a, file |-> S, rest |-> chunks(S),
                             last_hash |-> Initial, store |-> 0]]
  /\ UNCHANGED <<gen, built, frames, tvars, wcaps, dvars, heap, current, nbuilds, state, recorded, dpc, status,
                 exit_code, received, failed, event, solver, queue, enqueued, wk,
                 intake, reply, cmdloop, table, staged, dropped>>

\* upload sends its next chunk with the chain's last_hash and keeps the
\* digest of the packed message; the intake loop hands it to cmd_chunk
UploadChunk(w) ==
  /\ ~Busy /\ intake.art = "none"
  /\ up[w].art # "none" /\ up[w].rest # <<>>
  /\ LET m == ChunkMessage(up[w].last_hash, Head(up[w].rest)) IN
     /\ cmd_chunk(m)
     /\ up' = [up EXCEPT ![w].rest = Tail(@), ![w].last_hash = digest(m),
                         ![w].store = IF m.last_hash = Initial THEN store_of(m) ELSE @]
  /\ UNCHANGED <<gen, built, frames, tvars, wcaps, dvars, heap, current, nbuilds, state, recorded, dpc, status,
                 exit_code, received, failed, event, solver, queue, enqueued, wk,
                 intake, reply, cmdloop>>

\* at the end of the file upload sends the ArtifactMessage with success=True
\* and the last digest ("initial" when the file was empty)
UploadArtifact(w, move_ok) ==
  /\ ~Busy /\ intake.art = "none"
  /\ wk[w].st = "run" /\ up[w].art # "none" /\ up[w].rest = <<>>
  /\ cmd_artifact_msg(up[w].art, TRUE, up[w].last_hash, move_ok)
  /\ up' = [up EXCEPT ![w] = NoUpload]
  /\ wk' = [wk EXCEPT ![w].pending = @ \ {up[w].art},
                       ![w].reported = @ \cup {up[w].art}]
  /\ UNCHANGED <<gen, built, frames, tvars, wcaps, dvars, heap, current, nbuilds, state, recorded, dpc, status,
                 exit_code, solver, queue, enqueued, reply, cmdloop, staged, dropped>>

\* send_fail for a product the job did not build
UploadFail(w, a) ==
  /\ up[w].art = "none"
  /\ WorkerArtifact(w, a, FALSE, FALSE)

\* one build of the two independent jobs by workers that upload their
\* products chunk by chunk
UploadInit == BuildRequested({ForkGraph({})})

UploadNext ==
  \/ command_loop("fail", ProjectName, FALSE)
  \/ DriverFetch
  \/ DriverSetup
  \/ DriverCalculating
  \/ \E seed \in BOOLEAN : DriverSetGraph(seed)
  \/ DriverRaise
  \/ SolverJob
  \/ SolverRaise
  \/ SolverPut
  \/ SolverEnd
  \/ SolverWake
  \/ \E ok \in BOOLEAN : ArtifactDeposited(ok)
  \/ \E w \in Workers : Deliver(w)
  \/ \E w \in Workers, a \in DOMAIN gen.kind, S \in Files : UploadOpen(w, a, S)
  \/ \E w \in Workers : UploadChunk(w)
  \/ \E w \in Workers, ok \in BOOLEAN : UploadArtifact(w, ok)
  \/ \E w \in Workers, a \in DOMAIN gen.kind : UploadFail(w, a)
  \/ \E w \in Workers, code \in ExitCodes : WorkerCompletion(w, code)

UploadSpec == UploadInit /\ [][UploadNext]_vars

\* the data and the digests of the chunk messages an arbitrary sender may
\* put on the intake socket: one-byte chunks, chains of up to two chunks
StrayData == {<<b>> : b \in Bytes}
StrayHashes == {Initial} \cup {<<d>> : d \in StrayData}
ArtifactHashes == StrayHashes \cup {<<d, e>> : d \in StrayData, e \in StrayData}

\* a chunk message that no upload of the model sent
IntakeChunk(m) ==
  /\ ~Busy /\ intake.art = "none"
  /\ m.last_hash = Initial => Len(staged) < MaxStores
  /\ cmd_chunk(m)
  /\ UNCHANGED <<gen, built, frames, tvars, wcaps, dvars, heap, current, nbuilds, state, recorded, dpc, status,
                 exit_code, received, failed, event, solver, queue, enqueued, wk,
                 intake, reply, cmdloop, up>>

\* an artifact message, with its last_hash, that no upload of the model sent
IntakeArtifactMsg(a, success, h, move_ok) ==
  /\ ~Busy /\ intake.art = "none"
  /\ cmd_artifact_msg(a, success, h, move_ok)
  /\ UNCHANGED <<gen, built, frames, tvars, wcaps, dvars, heap, current, nbuilds, state, recorded, dpc, status,
                 exit_code, solver, queue, enqueued, wk, reply, cmdloop, staged, up, dropped>>

\* one build against any sender of chunk and artifact messages
IntakeInit == BuildRequested({ForkGraph({})})

IntakeNext ==
  \/ command_loop("fail", ProjectName, FALSE)
  \/ DriverFetch
  \/ DriverSetup
  \/ DriverCalculating
  \/ \E seed \in BOOLEAN : DriverSetGraph(seed)
  \/ SolverJob
  \/ SolverPut
  \/ SolverEnd
  \/ SolverWake
  \/ \E ok \in BOOLEAN : ArtifactDeposited(ok)
  \/ \E w \in Workers : Dispatch(w) /\ UNCHANGED wk
  \/ \E h \in StrayHashes, d \in StrayData : IntakeChunk(ChunkMessage(h, d))
  \/ \E a \in DOMAIN gen.kind, success \in BOOLEAN, h \in ArtifactHashes, ok \in BOOLEAN :
       IntakeArtifactMsg(a, success, h, ok)

IntakeSpec == IntakeInit /\ [][IntakeNext]_vars

\* one build against senders of first chunks and of artifact messages that
\* name the digest of a first chunk or "initial"
DepositNext ==
  \/ command_loop("fail", ProjectName, FALSE)
  \/ DriverFetch
  \/ DriverSetup
  \/ DriverCalculating
  \/ \E seed \in BOOLEAN : DriverSetGraph(seed)
  \/ SolverJob
  \/ SolverPut
  \/ SolverEnd
  \/ SolverWake
  \/ \E ok \in BOOLEAN : ArtifactDeposited(ok)
  \/ \E w \in Workers : Dispatch(w) /\ UNCHANGED wk
  \/ \E d \in StrayData : IntakeChunk(ChunkMessage(Initial, d))
  \/ \E a \in DOMAIN gen.kind, success \in BOOLEAN, h \in StrayHashes, ok \in BOOLEAN :
       IntakeArtifactMsg(a, success, h, ok)

DepositSpec == IntakeInit /\ [][DepositNext]_vars

(* ------------------------ graphs with architectures ------------------- *)
\* one build of a chain whose artifacts name any architectures, with workers
\* that follow run_job
GraphInit == BuildRequested(ArchGraphs)

GraphNext ==
  \/ command_loop("fail", ProjectName, FALSE)
  \/ DriverFetch
  \/ DriverSetup
  \/ DriverMirrors
  \/ DriverCalculating
  \/ \E seed \in BOOLEAN : DriverSetGraph(seed)
  \/ DriverRunning
  \/ DriverRaise
  \/ SolverJob
  \/ SolverRaise
  \/ SolverEnd
  \/ SolverWake
  \/ \E ok \in BOOLEAN : ArtifactDeposited(ok)
  \/ \E w \in Workers : Deliver(w)
  \/ \E w \in Workers, a \in DOMAIN gen.kind, success \in BOOLEAN, ok \in BOOLEAN :
       WorkerArtifact(w, a, success, ok)
  \/ \E w \in Workers, code \in ExitCodes : WorkerCompletion(w, code)

GraphSpec == GraphInit /\ [][GraphNext]_vars

\* one build with workers whose uploads and whose cleanup may raise
RunJobNext ==
  \/ GraphNext
  \/ \E w \in Workers, a \in DOMAIN gen.kind : upload_raises(w, a)
  \/ \E w \in Workers : rmtree_raises(w)

RunJobSpec == GraphInit /\ [][RunJobNext]_vars

\* one build of the fork graph with workers that follow run_job: both jobs
\* are ready in the first scan, so the solver's second put finds the queue
\* full; gevent runs the solver and the intake whenever they are runnable
WakeNext ==
  \/ command_loop("fail", ProjectName, FALSE)
  \/ DriverFetch
  \/ DriverSetup
  \/ DriverMirrors
  \/ DriverCalculating
  \/ \E seed \in BOOLEAN : DriverSetGraph(seed)
  \/ DriverRaise
  \/ SolverJob
  \/ SolverRaise
  \/ SolverPut
  \/ SolverEnd
  \/ SolverWake
  \/ \E ok \in BOOLEAN : ArtifactDeposited(ok)
  \/ \E w \in Workers : Deliver(w)
  \/ \E w \in Workers, a \in DOMAIN gen.kind, success \in BOOLEAN, ok \in BOOLEAN :
       WorkerArtifact(w, a, success, ok)
  \/ \E w \in Workers, code \in ExitCodes : WorkerCompletion(w, code)

WakeSpec == DispatchInit /\ [][WakeNext]_vars

WakeLive == WakeSpec /\ SF_vars(DriverStep) /\ SF_vars(WorkerStep)

(* ---------------------- graphs with file products --------------------- *)
\* one build of a graph with file products, with workers that follow run_job
FileInit == BuildRequested(FileGraphs)

FileSpec == FileInit /\ [][GraphNext]_vars

(* --------------------- Job.fail, statement by statement --------------- *)
\* the first statement of Job.fail: the job's new status
entered(j) ==
  [status EXCEPT ![j] =
     IF status[j] = RUNNING THEN WAITING_FOR_DONE
     ELSE IF unstable(j) THEN IGNORED_FAILURE ELSE FAILED]

\* a new call of fail on job j: at its first product, before the test of
\* prod.failed (ji = 0); ji >= 1 is the position of the loop over
\* graph.values()
Frame(j) == [job |-> j, pi |-> 1, ji |-> 0]

\* a loop over products that visits the consumers of failed products too
skip_never(prod) == FALSE

\* if prod.failed: continue
skip(prod) == failed[prod]

\* no fail command is being handled statement by statement
Quiet == frames.k = 0

\* the command loop receives fail for the project while a build is current:
\* cmd_fail reaches its loop over jobs.values()
CmdFailBegin ==
  /\ cmdloop.serving /\ ~Busy /\ Quiet
  /\ current # 0
  /\ frames' = [stack |-> <<>>, k |-> 1, before |-> Bits,
                cascades |-> IF DOMAIN frames.cascades = DOMAIN failed
                               THEN frames.cascades
                               ELSE [a \in DOMAIN failed |-> 0]]
  /\ UNCHANGED <<gen, built, tvars, wcaps, dvars, cvars, heap, enqueued, current, nbuilds,
                 state, recorded, dpc, status, exit_code, received, failed, event,
                 solver, queue, wk, intake, reply, cmdloop>>

\* cmd_fail's loop between two calls: the job at position k is skipped
\* unless it is WAITING, else x.fail(jobs) is called; after the last job
\* artifact_received.set() and the reply
CmdFailLoop ==
  /\ ~Quiet /\ frames.stack = <<>>
  /\ IF frames.k > Len(Order)
       THEN /\ frames' = [frames EXCEPT !.k = 0]
            /\ event' = TRUE
            /\ reply' = 204
            /\ cmdloop' = [serving |-> TRUE, replies |-> 1]
            /\ UNCHANGED status
     ELSE IF status[Order[frames.k]] = WAITING
       THEN /\ status' = entered(Order[frames.k])
            /\ frames' = [frames EXCEPT !.k = @ + 1,
                                        !.stack = <<Frame(Order[frames.k])>>]
            /\ UNCHANGED <<event, reply, cmdloop>>
     ELSE /\ frames' = [frames EXCEPT !.k = @ + 1]
          /\ UNCHANGED <<status, event, reply, cmdloop>>
  /\ UNCHANGED <<gen, built, tvars, wcaps, dvars, cvars, heap, enqueued, current, nbuilds,
                 state, recorded, dpc, exit_code, received, failed, solver, queue,
                 wk, intake>>

\* one statement of the innermost call of Job.fail: return after the last
\* product; skip a failed product; mark the product failed and received;
\* or one iteration of the loop over graph.values(), which calls fail on a
\* job that has the product among its deps
JobFailStep ==
  /\ frames.stack # <<>>
  /\ LET n == Len(frames.stack)
         f == frames.stack[n]
     IN
     IF f.pi > Len(products(f.job))
       THEN /\ frames' = [frames EXCEPT !.stack = SubSeq(@, 1, n - 1)]
            /\ UNCHANGED <<status, received, failed>>
     ELSE LET prod == products(f.job)[f.pi] IN
       IF f.ji = 0
         THEN IF skip(prod)
                THEN /\ frames' = [frames EXCEPT !.stack[n].pi = @ + 1]
                     /\ UNCHANGED <<status, received, failed>>
                ELSE /\ failed' = [failed EXCEPT ![prod] = TRUE]
                     /\ received' = [received EXCEPT ![prod] = TRUE]
                     /\ frames' = [frames EXCEPT !.stack[n].ji = 1,
                                                 !.cascades[prod] = @ + 1]
                     /\ UNCHANGED status
       ELSE IF f.ji > Len(Order)
         THEN /\ frames' = [frames EXCEPT !.stack[n] = [@ EXCEPT !.pi = @ + 1, !.ji = 0]]
              /\ UNCHANGED <<status, received, failed>>
       ELSE IF prod \in Range(deps(Order[f.ji]))
         THEN /\ status' = entered(Order[f.ji])
              /\ frames' = [frames EXCEPT !.stack =
                              Append([@ EXCEPT ![n].ji = @ + 1], Frame(Order[f.ji]))]
              /\ UNCHANGED <<received, failed>>
       ELSE /\ frames' = [frames EXCEPT !.stack[n].ji = @ + 1]
            /\ UNCHANGED <<status, received, failed>>
  /\ UNCHANGED <<gen, built, tvars, wcaps, dvars, cvars, heap, enqueued, current, nbuilds,
                 state, recorded, dpc, exit_code, event, solver, queue, wk, intake,
                 reply, cmdloop>>

\* one build of a graph with cycles or shared products, with workers that
\* follow run_job; a fail command is handled statement by statement (no
\* other task runs meanwhile: cmd_fail does not yield)
CascadeInit == BuildRequested(CyclicGraphs)

CascadeNext ==
  \/ Quiet /\ WakeNext
  \/ CmdFailBegin
  \/ CmdFailLoop
  \/ JobFailStep

CascadeSpec == CascadeInit /\ [][CascadeNext]_vars

\* the task that handles the command runs until it returns
CascadeLive == CascadeSpec /\ WF_vars(CmdFailLoop) /\ WF_vars(JobFailStep)

(* --------------------- Artifact objects of a Build -------------------- *)
\* set_graph on the Build's objects
HeapSetGraph ==
  /\ heap = NoGraph
  /\ heap' = Build_set_graph(gen)
  /\ UNCHANGED <<gen, built, frames, tvars, wcaps, dvars, cvars, current, nbuilds, state, recorded, dpc,
                 status, exit_code, received, failed, event, solver, queue,
                 enqueued, wk, intake, reply, cmdloop>>

\* x.received = True, x.failed = f on the Artifact object with this id
marked(b, id, f) ==
  [b EXCEPT !.objs[id] = [@ EXCEPT !.received = TRUE, !.failed = f]]

\* a task marks an Artifact through a job's reference: Job.fail through
\* self.products, set_graph through job_val.products
MarkThrough(j, reqset, i, f) ==
  /\ heap.returned
  /\ j \in DOMAIN heap.jobs /\ i \in DOMAIN heap.jobs[j][reqset]
  /\ heap' = marked(heap, heap.jobs[j][reqset][i], f)
  /\ UNCHANGED <<gen, built, frames, tvars, wcaps, dvars, cvars, current, nbuilds, state, recorded, dpc,
                 status, exit_code, received, failed, event, solver, queue,
                 enqueued, wk, intake, reply, cmdloop>>

\* cmd_artifact marks an Artifact through aset[message.artifact]
MarkInSet(aset, name, f) ==
  /\ heap.returned
  /\ name \in DOMAIN heap[aset]
  /\ heap' = marked(heap, heap[aset][name], f)
  /\ UNCHANGED <<gen, built, frames, tvars, wcaps, dvars, cvars, current, nbuilds, state, recorded, dpc,
                 status, exit_code, received, failed, event, solver, queue,
                 enqueued, wk, intake, reply, cmdloop>>

\* set_graph on every graph of ShareGraphs, then marks through any reference
HeapInit == InitWith(ShareGraphs)

HeapNext ==
  \/ HeapSetGraph
  \/ \E j \in DOMAIN gen.job, reqset \in {"deps", "products"}, i \in 1..3, f \in BOOLEAN :
       MarkThrough(j, reqset, i, f)
  \/ \E aset \in {"tool_set", "pkg_set", "file_set"}, name \in DOMAIN gen.kind, f \in BOOLEAN :
       MarkInSet(aset, name, f)

HeapSpec == HeapInit /\ [][HeapNext]_vars

(* ---------------------------- command surface ------------------------- *)
\* the command loop against any client: every command frame with every
\* argument frame, while builds run with workers that follow run_job
CommandInit == InitWith({UpToDateChain, EmptyGraph})

CommandNext ==
  \/ \E command \in Commands, arg \in Args, raises \in BOOLEAN :
       command_loop(command, arg, raises)
  \/ command_loop_aborts
  \/ DriverFetch
  \/ DriverSetup
  \/ DriverMirrors
  \/ DriverCalculating
  \/ \E seed \in BOOLEAN : DriverSetGraph(seed)
  \/ DriverRunning
  \/ DriverRaise
  \/ SolverJob
  \/ SolverRaise
  \/ SolverEnd
  \/ SolverWake
  \/ \E w \in Workers : Deliver(w)
  \/ \E w \in Workers, a \in DOMAIN gen.kind, success \in BOOLEAN, ok \in BOOLEAN :
       WorkerArtifact(w, a, success, ok)
  \/ \E w \in Workers, code \in ExitCodes : WorkerCompletion(w, code)

CommandSpec == CommandInit /\ [][CommandNext]_vars

(* ------------------------ rolling tools registry ---------------------- *)
\* load_tool_registry: the versions read from tools.json
load_tool_registry == tools_json

\* update_tool_registry: versions[artifact.name] = artifact.version, dumped
\* to a temporary file that is renamed to tools.json
update_tool_registry(name, version, toolvers) == [toolvers EXCEPT ![name] = version]

\* the variables of the builds
bvars ==
  <<gen, built, frames, wcaps, dvars, cvars, heap, current, nbuilds, state, recorded, dpc,
    status, exit_code, received, failed, event, solver, queue, enqueued, wk,
    intake, reply, cmdloop>>

\* cmd_artifact's deposit of a tool, with proj.tool_repo_lock: load the
\* registry; a tool that is missing or registered with another version is
\* copied and registered; otherwise the two files are hashed, and the task
\* may be suspended in xutils.hash_file with the lock held
tool_deposit(name, version, yields) ==
  /\ tool_repo_lock = "none"
  /\ access' = [task |-> "intake", owner |-> "intake"]
  /\ IF load_tool_registry[name] # version
       THEN /\ ~yields
            /\ tools_json' = update_tool_registry(name, version, load_tool_registry)
            /\ tool_repo_lock' = "none"
       ELSE /\ tool_repo_lock' = (IF yields THEN "intake" ELSE "none")
            /\ UNCHANGED tools_json
  /\ UNCHANGED bvars

\* xutils.hash_file returns and the with block of the deposit ends
hash_file_returns ==
  /\ tool_repo_lock = "intake"
  /\ tool_repo_lock' = "none"
  /\ UNCHANGED <<bvars, tools_json, access>>

\* run_project seeding the build's tool repository with an up-to-date tool:
\* the tool is copied from the rolling repository and update_tool_registry
\* is called on the rolling file, outside tool_repo_lock
seed_tool(name, version) ==
  /\ tools_json[name] # NoVersion
  /\ access' = [task |-> "driver", owner |-> tool_repo_lock]
  /\ tools_json' = update_tool_registry(name, version, load_tool_registry)
  /\ UNCHANGED <<bvars, tool_repo_lock>>

\* _load_version_information: load_tool_registry with project.tool_repo_lock
load_version_information ==
  /\ tool_repo_lock = "none"
  /\ access' = [task |-> "driver", owner |-> "driver"]
  /\ UNCHANGED <<bvars, tools_json, tool_repo_lock>>

RegistryInit == InitWith({EmptyGraph})

RegistryNext ==
  \/ \E name \in Tools, version \in Versions, yields \in BOOLEAN :
       tool_deposit(name, version, yields)
  \/ hash_file_returns
  \/ \E name \in Tools, version \in Versions : seed_tool(name, version)
  \/ load_version_information

RegistrySpec == RegistryInit /\ [][RegistryNext]_vars

(* ------------------------ JobStatus in the solver --------------------- *)
\* solve_project scanning the two independent jobs of a running build whose
\* jobs have any status of messages.JobStatus (PREREQUISITE_FAILED, which
\* no code assigns, included) and whose products are received or not
StatusInit ==
  /\ gen = ForkGraph({}) /\ wcaps = NoCaps
  /\ built = Build_set_graph(gen)
  /\ frames = NoFrames
  /\ current = 1
  /\ nbuilds = 1
  /\ state = [b \in Builds |-> IF b = 1 THEN "RUNNING" ELSE "NONE"]
  /\ recorded = [b \in Builds |-> "none"]
  /\ dpc = "solve"
  /\ status \in [DOMAIN gen.job -> JobStatus]
  /\ exit_code = [j \in DOMAIN gen.job |-> NoExitCode]
  /\ received \in [DOMAIN gen.kind -> BOOLEAN]
  /\ failed = [a \in DOMAIN gen.kind |-> FALSE]
  /\ event = FALSE
  /\ solver = [pc |-> "scan", idx |-> 1, some_waiting |-> FALSE, item |-> "none"]
  /\ queue = <<>>
  /\ enqueued = {}
  /\ wk = [w \in Workers |-> IdleWorker]
  /\ intake = IntakeIdle
  /\ reply = 204
  /\ cmdloop = [serving |-> TRUE, replies |-> 1]
  /\ tasks = [r \in Rids |-> NoTask]
  /\ wreq = [w \in Workers |-> NoRequest]
  /\ sent = <<>>
  /\ table = NoTable
  /\ staged = <<>>
  /\ up = [w \in Workers |-> NoUpload]
  /\ dropped = Initial
  /\ heap = NoGraph
  /\ tools_json = [x \in Tools |-> NoVersion]
  /\ tool_repo_lock = "none"
  /\ access = NoAccess

StatusNext ==
  \/ SolverJob
  \/ SolverPut
  \/ SolverEnd
  \/ \E w \in Workers : Dispatch(w) /\ UNCHANGED wk

StatusSpec == StatusInit /\ [][StatusNext]_vars

(* ------------------------------- claims ------------------------------- *)
\* the builds that were created and are not DONE
ActiveBuilds == {b \in Builds : state[b] \notin {"NONE", "DONE"}}

\* C1: at most one build is active per project: the active build is exactly
\* the project's current one; a build command that arrives while current is
\* set is answered 409 and changes nothing (no Build, no driver); current is
\* cleared only by the step in which that build's driver finishes (DONE)
C1_OneBuildPerProject ==
  /\ [](Cardinality(ActiveBuilds) <= 1)
  /\ [](ActiveBuilds = IF current = 0 THEN {} ELSE {current})
  /\ [][current # 0 /\ reply # 409 /\ reply' = 409 =>
          UNCHANGED <<gen, built, frames, tvars, wcaps, dvars, cvars, heap, current, nbuilds, state, recorded, dpc, status,
                      exit_code, received, failed, event, solver, queue,
                      enqueued, wk, intake>>]_vars
  /\ [][current # 0 => /\ nbuilds' = nbuilds
                       /\ current' \in {current, 0}
                       /\ current' = 0 => state'[current] = "DONE" /\ dpc' = "done"]_vars

\* a build command was refused while a build was running
C1_Witness == reply = 409 /\ current # 0 /\ state[current] = "RUNNING"

\* every job's capabilities are offered by some worker
CapsServed ==
  \A j \in DOMAIN gen.job : \E w \in Workers : gen.job[j].capabilities \subseteq wcaps[w]

\* no worker still runs a job that an earlier build of the project dispatched
NoStaleWork == \A w \in Workers : wk[w].st = "run" => wk[w].build = nbuilds

\* a step in which the pipeline raises: an external step, store_status in the
\* solver, or one of the solver's assertions
PipelineRaises ==
  \/ DriverRaise
  \/ SolverRaise
  \/ SolverEnd /\ ~solver.some_waiting /\ ~Complete

C3_FlagsSticky ==
  [][\A a \in DOMAIN received \cap DOMAIN received' :
       /\ received[a] => received'[a]
       /\ failed[a] => failed'[a]]_vars

\* C4: a job goes from WAITING to RUNNING, and the solver calls put for it,
\* only in a step of the solver's scan in which the job is WAITING and every
\* one of its deps is received and none is failed; so the solver never
\* enqueues a job it finds with a failed dep
C4_DispatchNeedsDeps ==
  [][\A j \in JobNames \cap DOMAIN status' :
       ((status[j] # RUNNING /\ status'[j] = RUNNING) \/ j \in enqueued' \ enqueued)
         => /\ solver.pc = "scan"
            /\ status[j] = WAITING /\ status'[j] = RUNNING
            /\ \A d \in Range(deps(j)) : received[d] /\ ~failed[d]]_vars

\* the consumer of a chain was dispatched on its received, unfailed dep
C4_Witness ==
  /\ "B" \in JobNames /\ deps("B") # <<>>
  /\ "B" \in enqueued /\ status["B"] = RUNNING
  /\ \A d \in Range(deps("B")) : received[d] /\ ~failed[d]

\* the status cmd_job's exit-code mapping gives job j
CompletionStatus(j, code) ==
  IF code = 0 THEN SUCCESS ELSE IF unstable(j) THEN IGNORED_FAILURE ELSE FAILED

\* C5 (as stated): a completion message for a job of the current build moves
\* it from RUNNING or WAITING_FOR_DONE to SUCCESS (exit code 0),
\* IGNORED_FAILURE (unstable) or FAILED, and leaves a job in any other status
\* as it is
C5_CompletionFromRunningOnly ==
  [][\A j \in DOMAIN gen.job, code \in ExitCodes :
       (IntakeJob(j, code) /\ current # 0 /\ j \in JobNames)
         => status'[j] = IF status[j] \in {RUNNING, WAITING_FOR_DONE}
                           THEN CompletionStatus(j, code)
                           ELSE status[j]]_vars

\* the solver's scan is over and found no non-terminating job: it returns
SolverReturns ==
  solver.pc = "scan" /\ solver.idx > Len(Order) /\ ~solver.some_waiting

\* C6 (as stated): whichever of a job's completion message and its final
\* artifact message arrives first, the build does not fail for it: when the
\* solver returns with every job SUCCESS by a completion with exit code 0,
\* the assertions hold and the build's recorded success is true
C6_EitherOrderTolerated ==
  [][(SolverReturns /\ SolverEnd
        /\ \A j \in JobNames : status[j] = SUCCESS /\ exit_code[j] = 0)
       => Complete /\ recorded'[nbuilds] = "true"]_vars

\* C7 (as stated): whenever a scan finds no non-terminating job every
\* artifact is received (the assertions hold), and the solver returns true
\* exactly when every job's status is successful
C7_AssertionsHold ==
  /\ [](SolverReturns => Complete)
  /\ [][SolverReturns /\ SolverEnd =>
          (recorded'[nbuilds] = "true" <=> \A j \in JobNames : successful(status[j]))]_vars

\* the jobs a call of Job.fail is made on in this step: by the solver's scan
\* for the WAITING job it finds with a failed dep, by the fail command for
\* every WAITING job
FailRoots ==
  IF solver.pc = "scan"
    THEN IF solver.idx <= Len(Order)
              /\ status[Order[solver.idx]] = WAITING /\ dep_failed(Order[solver.idx])
           THEN {Order[solver.idx]} ELSE {}
    ELSE IF current # 0 THEN {j \in JobNames : status[j] = WAITING} ELSE {}

\* a step that runs the cascade
FailStep == FailRoots # {} /\ (SolverJob \/ command_loop("fail", ProjectName, FALSE))

\* the jobs reachable from S over product-to-consumer edges, through the
\* products that are not marked in F
RECURSIVE Reach(_, _)
Reach(S, F) ==
  LET N == S \cup {k \in JobNames :
                     \E j \in S : \E x \in Range(products(j)) :
                        ~F[x] /\ x \in Range(deps(k))}
  IN IF N = S THEN S ELSE Reach(N, F)

ProducerFailed(b, ua) ==
  /\ gen = ChainGraph(ua, FALSE, {})
  /\ nbuilds = b /\ "A" \in JobNames
  /\ exit_code["A"] \notin {NoExitCode, 0}

\* build b finished: A has status stA, p is failed, B is FAILED and the
\* solver never called put for it, and the recorded success is false
ChainFailed(b, stA) ==
  /\ nbuilds = b /\ "A" \in JobNames
  /\ state[b] = "DONE" /\ recorded[b] = "false"
  /\ status["A"] = stA
  /\ failed["p"]
  /\ status["B"] = FAILED /\ "B" \notin enqueued

Consumers(j) ==
  {k \in JobNames : \E x \in Range(products(j)) : x \in Range(deps(k))}

\* C11 (as stated): an unstable job never ends FAILED, and once it has ended
\* IGNORED_FAILURE no job consuming its products is failed on that account:
\* in every step other than the fail command, a consumer that was not FAILED
\* is not FAILED afterwards
C11_UnstableFailureContained ==
  /\ [][\A j \in JobNames \cap DOMAIN status' : unstable(j) => status'[j] # FAILED]_vars
  /\ [][~command_loop("fail", ProjectName, FALSE) =>
          \A j \in JobNames \cap DOMAIN status' :
             (unstable(j) /\ status'[j] = IGNORED_FAILURE) =>
                \A k \in Consumers(j) : status[k] # FAILED => status'[k] # FAILED]_vars

\* the number of places a queue item of the current build is in: the queue,
\* the solver's blocked put, a worker it was sent to
Copies(j) ==
  Cardinality({i \in DOMAIN queue : queue[i] = [build |-> nbuilds, job |-> j]})
  + (IF solver.pc = "put" /\ solver.item = j THEN 1 ELSE 0)
  + Cardinality({i \in DOMAIN sent :
                   sent[i].ok /\ sent[i].build = nbuilds /\ sent[i].job = j})

C13_SentOnlyIfCapable ==
  /\ [](\A i \in DOMAIN sent : capabilities(sent[i].job) \subseteq wcaps[sent[i].to])
  /\ [][\A r \in Rids :
          (TaskGet(r) /\ queue # <<>>
             /\ ~(capabilities(Head(queue).job) \subseteq wcaps[Owner(r)]))
            => /\ queue' = Append(Tail(queue), Head(queue))
               /\ sent' = sent /\ wk' = wk]_vars

\* the worker without "c" found A on the queue and sleeps; A went to the
\* worker that offers "c"
C13_Witness ==
  /\ gen = ForkGraph({"c"}) /\ wcaps = SomeCaps
  /\ tasks[<<"w2", 1>>].pc = "sleep"
  /\ \E i \in DOMAIN sent : sent[i].job = "A" /\ sent[i].ok /\ sent[i].to = "w1"

\* a reachable worker that offers the capabilities of the queue's head has a
\* request pending
Servable ==
  /\ queue # <<>>
  /\ \E r \in Rids : /\ tasks[r].pc # "none" /\ reachable(r)
                     /\ capabilities(Head(queue).job) \subseteq wcaps[Owner(r)]

C15_HeartbeatBeforeTimeout ==
  \A w \in Workers : wreq[w].polling => wreq[w].left > 0

\* C16: when the router reports the routing id unreachable (its worker has
\* dropped that socket), the task puts the job back on the queue and ends;
\* no status changes (the job's stays RUNNING), no worker receives anything
C16_UnreachableRequeues ==
  [][\A r \in Rids :
       (TaskGet(r) /\ queue # <<>> /\ wreq[Owner(r)].conn # r[2]
          /\ capabilities(Head(queue).job) \subseteq wcaps[Owner(r)])
         => /\ queue' = Append(Tail(queue), Head(queue))
            /\ tasks'[r] = NoTask
            /\ status' = status /\ wk' = wk
            /\ status'[Head(queue).job] = RUNNING]_vars

\* a job whose send failed for an unreachable routing id was delivered
\* afterwards
C16_Witness ==
  \E i, k \in DOMAIN sent :
     /\ i < k /\ ~sent[i].ok /\ sent[k].ok
     /\ sent[i].build = sent[k].build /\ sent[i].job = sent[k].job

\* C17: chunk stream law. When upload has sent every chunk of a file S with
\* the chaining rule and cmd_chunk has taken them in order, and no other
\* stream has opened a store, the digest that the artifact message is about
\* to carry is a key of the table, and the store under it holds S in its
\* staging file and in its hasher.
C17_ChunkStreamLaw ==
  \A w \in Workers :
    (up[w].art # "none" /\ up[w].rest = <<>> /\ Len(staged) <= 1) =>
      /\ up[w].last_hash \in DOMAIN table
      /\ staged[table[up[w].last_hash]].file = up[w].file
      /\ staged[table[up[w].last_hash]].hasher = up[w].file

\* the bytes of its file that the upload of w has sent so far
sent_bytes(w) ==
  SubSeq(up[w].file, 1, Len(up[w].file) - Len(Flatten(up[w].rest)))

\* C18: streams of concurrent uploads stay disjoint. Every upload that has
\* sent a chunk and not yet its artifact message has its own table entry,
\* under the digest of its last chunk message, leading to the store its
\* first chunk opened, and that store's staging file holds the bytes this
\* upload sent and no others.
C18_StreamsDisjoint ==
  \A w \in Workers :
    (up[w].art # "none" /\ up[w].last_hash # Initial) =>
      /\ up[w].last_hash \in DOMAIN table
      /\ table[up[w].last_hash] = up[w].store
      /\ staged[up[w].store].file = sent_bytes(w)

\* the chunk messages of IntakeNext
StrayChunks == {ChunkMessage(h, d) : h \in StrayHashes, d \in StrayData}

\* C19 as stated: a chunk with an unknown last_hash changes neither the
\* table nor a staging file nor a hasher, and no later artifact message that
\* names the dropped chunk's digest finds a store.
C19_DroppedNeverCompleted ==
  /\ [][\A m \in StrayChunks :
          (unknown(m) /\ IntakeChunk(m)) => UNCHANGED <<table, staged>>]_vars
  /\ [][\A a \in DOMAIN gen.kind, h \in ArtifactHashes, ok \in BOOLEAN :
          (dropped # Initial /\ h = dropped /\ IntakeArtifactMsg(a, TRUE, h, ok))
            => ~found(h)]_vars

\* C19 amended: a chunk with an unknown last_hash changes neither the table
\* nor a staging file nor a hasher; and the store an artifact message can
\* take under a digest always holds, in its file and in its hasher, the
\* bytes of the whole chain of chunks that digest stands for, so no stream
\* is completed with a dropped chunk's bytes missing. (A dropped duplicate,
\* or a chunk of a stream equal to another, does not keep its digest from
\* being or becoming a key.)
C19_DropLeavesChainsWhole ==
  /\ [][\A m \in StrayChunks :
          (unknown(m) /\ IntakeChunk(m)) => UNCHANGED <<table, staged>>]_vars
  /\ [](\A k \in DOMAIN table :
          /\ staged[table[k]].file = Flatten(k)
          /\ staged[table[k]].hasher = Flatten(k))

\* a chunk was dropped and a store is keyed by that chunk's own digest
C19_Witness ==
  /\ dropped # Initial
  /\ dropped \in DOMAIN table
  /\ Len(dropped) = 2

\* C20: an artifact message with success=True whose last_hash is no key of
\* the chunk table is dropped silently: no artifact's received or failed
\* bit, no job status and no deposit changes.
C20_MissDroppedSilently ==
  [][\A a \in DOMAIN gen.kind, h \in ArtifactHashes, ok \in BOOLEAN :
       (~found(h) /\ IntakeArtifactMsg(a, TRUE, h, ok))
         => UNCHANGED <<received, failed, status, intake>>]_vars

\* the graph names two different architectures other than "noarch" among
\* its tools and packages
multiarch(g) ==
  \E a \in DOMAIN g.kind, c \in DOMAIN g.kind :
    /\ g.kind[a] # "FILE" /\ g.kind[c] # "FILE"
    /\ g.architecture[a] # "noarch" /\ g.architecture[c] # "noarch"
    /\ g.architecture[a] # g.architecture[c]

\* the concrete architectures among the tool and package Artifacts of b
concrete(b) ==
  UNION {Range(b.objs[i].architecture.value) \ {"noarch"} :
           i \in {k \in DOMAIN b.objs : b.objs[k].kind # "FILE"}}

\* C21: on a graph with two different concrete architectures set_graph
\* raises: the step that loads the graph ends the build DONE with success
\* false and detached, and no job of the graph is ever enqueued; and when
\* set_graph has returned, at most one concrete architecture appears among
\* the build's tools and packages.
C21_MultiarchFailsBuild ==
  /\ [][(multiarch(gen) /\ \E seed \in BOOLEAN : DriverSetGraph(seed)) =>
          (state'[nbuilds] = "DONE" /\ recorded'[nbuilds] = "false" /\ current' = 0)]_vars
  /\ [](multiarch(gen) => (enqueued = {} /\ queue = <<>>))
  /\ [](dpc \in {"repos", "solve"} =>
          (Build_set_graph(gen).returned /\ Cardinality(concrete(Build_set_graph(gen))) <= 1))

\* set_graph raised in the middle of a graph with two architectures: the
\* first job is in Build.jobs, the second is not, and the build is DONE
C21_Witness ==
  /\ multiarch(gen)
  /\ DOMAIN status = {"A"}
  /\ state[nbuilds] = "DONE" /\ recorded[nbuilds] = "false"

\* C22: after set_graph has returned, no tool or package Artifact is left
\* "noarch": each such architecture is a list of exactly one architecture,
\* the build's concrete one, on every graph, the all-"noarch" one included,
\* so that cmd_artifact's assertion len(arch) == 1 holds.
C22_NoarchReplacedBySingleton ==
  heap.returned =>
    \A i \in DOMAIN heap.objs :
      heap.objs[i].kind # "FILE" =>
        /\ heap.objs[i].architecture # Str("noarch")
        /\ heap.objs[i].architecture.type = "list" =>
             /\ Len(heap.objs[i].architecture.value) = 1
             /\ heap.objs[i].architecture.value[1] \in heap.arch_set

\* the references of b's jobs: the ids in every job's deps and products
references(b) ==
  UNION {Range(b.jobs[j].deps) \cup Range(b.jobs[j].products) : j \in DOMAIN b.jobs}

\* C23: after set_graph every tool and package name has exactly one
\* Artifact object of its kind, which is the object under the name in
\* tool_set or pkg_set and the object every job's deps and products refer
\* to; so the received and failed bits set through one reference are the
\* bits read through every other reference and through the sets.
C23_ArtifactIdentityShared ==
  heap.returned =>
    /\ \A i \in DOMAIN heap.objs, k \in DOMAIN heap.objs :
         (heap.objs[i].kind # "FILE" /\ heap.objs[i].kind = heap.objs[k].kind
            /\ heap.objs[i].name = heap.objs[k].name) => i = k
    /\ \A i \in references(heap) :
         heap.objs[i].kind # "FILE" =>
           /\ heap.objs[i].name \in DOMAIN heap[aset_of(heap.objs[i].kind)]
           /\ heap[aset_of(heap.objs[i].kind)][heap.objs[i].name] = i
           /\ in_sets(heap, heap.objs[i].name).received = heap.objs[i].received
           /\ in_sets(heap, heap.objs[i].name).failed = heap.objs[i].failed

\* the tool that A produces and that B and C need was marked failed through
\* one reference, and C's two deps are the tool and B's package
C23_Witness ==
  /\ heap.returned
  /\ heap.jobs["A"].products[1] = heap.jobs["C"].deps[1]
  /\ heap.jobs["B"].products[1] = heap.jobs["C"].deps[2]
  /\ heap.objs[heap.jobs["C"].deps[1]].failed
  /\ heap.objs[heap.jobs["C"].deps[2]].received

\* the graph entry's up2date flag
up2date(j) == gen.job[j].up2date

\* C24: a job whose entry has up2date=true is UP_TO_DATE after the graph
\* load, with every product received and not failed; it is never enqueued,
\* and it is UP_TO_DATE as long as the build is not DONE.
C24_UpToDateKept ==
  /\ [][(\E seed \in BOOLEAN : DriverSetGraph(seed)) =>
          \A j \in DOMAIN status' :
            up2date(j) =>
              /\ status'[j] = UP_TO_DATE
              /\ \A x \in Range(products(j)) : received'[x] /\ ~failed'[x]]_vars
  /\ [](\A j \in JobNames :
          up2date(j) =>
            /\ j \notin enqueued
            /\ state[nbuilds] # "DONE" => status[j] = UP_TO_DATE)

\* the status codes of the command endpoint
StatusCodes == {200, 204, 400, 404, 409, 500}

\* the handler of the request raises an exception
HandlerRaises(command, arg, raises) ==
  Unloadable(command, arg) \/ Rejected(command, arg) \/ CreateFails(command, arg, raises)

\* what the claim says of every request but those whose handler raises
RepliesOnce(command, arg) ==
  /\ cmdloop'.replies = 1
  /\ reply' \in StatusCodes
  /\ command \notin cmds => reply' = 400
  /\ command \in {"build", "fail"} /\ arg = "nope" => reply' = 404
  /\ command = "build" /\ arg = ProjectName /\ current # 0 => reply' = 409
  /\ command = "fail" /\ arg = ProjectName /\ current = 0 => reply' = 409
  /\ command = "build" /\ current' # current => reply' = 204
  /\ command = "fail" /\ arg = ProjectName /\ current # 0 => reply' = 204

C26_ProductsThenCompletion ==
  [][\A w \in Workers :
       wk[w].st = "run" /\ wk'[w] # wk[w] /\ wk'[w].st # "run" =>
         /\ \E code \in ExitCodes : WorkerCompletion(w, code)
         /\ Range(products(wk[w].job)) \subseteq wk[w].reported]_vars

\* the artifact whose deposit for the running build the intake task is
\* suspended in
Depositing(a) == intake.art = a /\ intake.build = nbuilds

\* C27: the solver never dispatches a job while the deposit of one of its
\* dependencies is in progress (so that no job is dispatched on a deposit
\* that then fails)
C27_NoDispatchDuringDeposit ==
  [][\A j \in DOMAIN status \cap DOMAIN status' :
       status[j] = WAITING /\ status'[j] = RUNNING =>
         \A dep \in Range(deps(j)) : ~Depositing(dep)]_vars

\* C28: whenever a task reads or rewrites the rolling tools registry, it is
\* the owner of the project's tool_repo_lock
C28_RegistryUnderLock == access.task # "none" => access.owner = access.task

\* the order of messages.BuildState, with UPDATING_MIRRORS where run_project
\* sets it, and "NONE" for a build that is not created yet
BuildStates ==
  <<"NONE", "SCHEDULED", "FETCH", "SETUP", "UPDATING_MIRRORS", "CALCULATING",
    "SETUP_REPOS", "RUNNING", "DONE">>

Rank(s) == CHOOSE i \in 1..Len(BuildStates) : BuildStates[i] = s

\* solve_project hands a job to the outgoing queue in this step
Enqueues == enqueued' \ enqueued # {} \/ Len(queue') > Len(queue)

\* C29: a build's state never moves backward in the order SCHEDULED, FETCH,
\* SETUP, UPDATING_MIRRORS, CALCULATING, SETUP_REPOS, RUNNING, DONE, so DONE
\* is final; jobs are enqueued only while the build is RUNNING; a build that
\* is DONE is not its project's current build, the step that reaches DONE
\* leaves current none, and a build command that finds current none is
\* accepted
C29_StateMovesForward ==
  /\ [][\A b \in Builds :
          /\ Rank(state[b]) <= Rank(state'[b])
          /\ state[b] = "DONE" => state'[b] = "DONE"
          /\ state[b] # "DONE" /\ state'[b] = "DONE" => current' = 0]_vars
  /\ [][Enqueues => state[nbuilds] = "RUNNING" /\ state'[nbuilds] = "RUNNING"]_vars
  /\ [](\A b \in Builds : state[b] = "DONE" => current # b)
  /\ [][command_loop("build", ProjectName, FALSE) /\ current = 0 =>
          /\ reply' = 204
          /\ current' = nbuilds' /\ state'[current'] = "SCHEDULED"]_vars

\* the first build went through every state and is DONE, and the build
\* command that followed was accepted: the second build is running
C29_Witness ==
  /\ state[1] = "DONE" /\ recorded[1] = "true"
  /\ current = 2 /\ state[2] = "RUNNING" /\ enqueued # {}

\* the four statuses of the law, and the statuses the job state machine
\* names terminal
Four == {FAILED, SUCCESS, IGNORED_FAILURE, UP_TO_DATE}
NamedTerminal == Four \cup {PREREQUISITE_FAILED}

\* a scan of solve_project is over: some_waiting tells whether it met a job
\* that is not terminating
Scanned == solver.pc = "scan" /\ solver.idx > Len(Order)

\* terminating holds exactly for the four statuses, successful implies
\* terminating, and a completed scan counts exactly the jobs outside the
\* four as waiting
TerminatingLaw ==
  /\ \A j \in DOMAIN status :
       /\ terminating(status[j]) <=> status[j] \in Four
       /\ successful(status[j]) => terminating(status[j])
  /\ Scanned => (solver.some_waiting <=> \E j \in DOMAIN status : status[j] \notin Four)

Receives(a) ==
  /\ a \in DOMAIN received' /\ received'[a]
  /\ ~(a \in DOMAIN received /\ received[a])

\* the step is the intake processing an artifact message for a
ByMessage(a) ==
  \E w \in Workers, success \in BOOLEAN, ok \in BOOLEAN : WorkerArtifact(w, a, success, ok)

\* the step is a failure cascade (of the solver or of the fail command)
\* that marks a
ByCascade(a) ==
  /\ failed'[a]
  /\ SolverJob \/ command_loop("fail", ProjectName, FALSE)

\* the step is the graph load, and a is a product of an up-to-date job
ByLoad(a) ==
  /\ \E seed \in BOOLEAN : DriverSetGraph(seed)
  /\ \E j \in DOMAIN gen.job : up2date(j) /\ a \in Range(products(j))

\* C31 (as stated): a FILE artifact gets received=true only when an artifact
\* message for it is processed or when the failure cascade marks it; no
\* other operation, the graph load included, sets received on a FILE
C31_FileReceivedByMessageOnly ==
  [][\A a \in DOMAIN gen.kind :
       gen.kind[a] = "FILE" /\ Receives(a) => ByMessage(a) \/ ByCascade(a)]_vars

\* C31 (amended): a FILE artifact gets received=true only when an artifact
\* message for it is processed, when the failure cascade marks it, or when
\* the graph load marks it as a product of an up-to-date job
C31_FileReceivedByMessageOrLoad ==
  [][\A a \in DOMAIN gen.kind :
       gen.kind[a] = "FILE" /\ Receives(a)
         => ByMessage(a) \/ ByCascade(a) \/ ByLoad(a)]_vars

\* file f is received since the load of the up-to-date A, file g since the
\* upload by the worker that runs B
C31_Witness ==
  /\ gen = FileGraph(TRUE, FALSE)
  /\ DOMAIN received # {} /\ received["f"] /\ ~failed["f"]
  /\ status["A"] = UP_TO_DATE
  /\ \E w \in Workers : wk[w].job = "B" /\ "g" \in wk[w].reported
  /\ received["g"] /\ ~failed["g"]

\* job j was dispatched and its completion message has not been processed
Dispatched(j) == j \in DOMAIN status /\ status[j] \in {RUNNING, WAITING_FOR_DONE}

\* the step is the intake processing a completion message for job j
ByCompletion(j) ==
  \E w \in Workers, code \in ExitCodes : wk[w].job = j /\ WorkerCompletion(w, code)

\* C32: a dispatched job reaches a terminal status only when its completion
\* message is processed: a RUNNING job that the solver or the failure
\* cascade reaches goes to WAITING_FOR_DONE, and a WAITING_FOR_DONE job
\* stays so until its completion message, however often the cascade
\* reaches it
C32_TerminalOnlyByCompletion ==
  [][\A j \in DOMAIN status \cap DOMAIN status' :
       Dispatched(j) /\ status'[j] # status[j]
         => \/ ByCompletion(j)
            \/ status[j] = RUNNING /\ status'[j] = WAITING_FOR_DONE]_vars

\* artifact a is in a set of the current build
Known(a) == current # 0 /\ a \in DOMAIN received

\* the processing of the message ended in this step: the artifact is
\* received, the solver's event is set, and the intake task is free for
\* the next message
Processed(a) == received'[a] /\ event' /\ intake' = IntakeIdle

\* what one artifact message for a known artifact does
ArtifactLaw(a, success, h, move_ok) ==
  IF ~success
    THEN Processed(a) /\ failed'[a] /\ table' = table
  ELSE IF ~(found(h) /\ move_ok)
    THEN Processed(a) /\ failed'[a]
  ELSE IF gen.kind[a] = "PACKAGE"
    THEN received'[a] /\ intake'.art = a
  ELSE Processed(a)

FailHandled ==
  /\ current # 0 /\ state[current] = "RUNNING"
  /\ command_loop("fail", ProjectName, FALSE)

\* no job of the build is WAITING
NoneWaiting(st) == DOMAIN st # {} /\ \A j \in DOMAIN st : st[j] # WAITING

\* C34: a fail command for a project whose build is RUNNING leaves no job
\* WAITING (each becomes FAILED, or IGNORED_FAILURE if unstable), makes no
\* RUNNING or WAITING_FOR_DONE job terminal and wakes the solver; from then
\* on no job of the build is WAITING again and none is dispatched
C34_FailCommand ==
  /\ [][FailHandled =>
          /\ NoneWaiting(status')
          /\ \A j \in DOMAIN status :
               /\ status[j] = WAITING
                    => status'[j] = (IF unstable(j) THEN IGNORED_FAILURE ELSE FAILED)
               /\ Dispatched(j) => ~terminating(status'[j])
          /\ event']_vars
  /\ [][NoneWaiting(status) /\ nbuilds' = nbuilds
          => NoneWaiting(status') /\ enqueued' = enqueued]_vars

\* the (caps, job) tuple the solver puts for job j of the running build
QueueItem(j) == [build |-> nbuilds, job |-> j]

\* the solver is inside its for loop, scanning or blocked in put
InScan(sv) == sv.pc \in {"scan", "put"}

\* C35: the dispatch queue never holds more than one entry; a put on the
\* full queue suspends the solver, whose scan goes on (with the job in the
\* queue) only once the entry has been removed; and within one scan jobs are
\* put in the graph's insertion order: each put is of the job at the scan's
\* position, and the position only moves forward until the next scan
C35_QueueOfOne ==
  /\ [](Len(queue) <= 1)
  /\ [][solver.pc # "put" /\ solver'.pc = "put"
          => Len(queue) = 1 /\ queue' = queue /\ solver'.item = Order[solver.idx]]_vars
  /\ [][solver.pc = "put" /\ queue' # queue
          => \/ queue' = <<>>
             \/ queue = <<>> /\ queue' = <<QueueItem(solver.item)>> /\ solver'.pc = "scan"]_vars
  /\ [][solver.pc = "put" /\ solver'.pc # "put"
          => queue = <<>> /\ queue' = <<QueueItem(solver.item)>>
               /\ solver'.idx = solver.idx + 1]_vars
  /\ [][\A j \in enqueued' \ enqueued :
          /\ solver.pc = "scan" /\ j = Order[solver.idx]
          /\ \/ queue' = Append(queue, QueueItem(j))
             \/ solver'.pc = "put" /\ solver'.item = j /\ solver'.idx = solver.idx]_vars
  /\ [][InScan(solver) /\ InScan(solver') /\ solver'.idx < solver.idx
          => solver.pc = "scan" /\ solver.idx > Len(Order) /\ solver'.idx = 1]_vars

\* both jobs of the fork graph were ready in one scan: A was put and has
\* been taken by a worker, and the solver, suspended in the put of B on the
\* full queue, has not resumed yet
C35_Witness ==
  /\ solver.pc = "put" /\ solver.item = "B" /\ queue = <<>>
  /\ \E w \in Workers : wk[w].st = "run" /\ wk[w].job = "A"

\* the next scan would act on job j: dispatch it or fail it (WAITING with a
\* failed dep, or with every dep received), or promote it (RUNNING with
\* every product received)
Ready(j) ==
  \/ status[j] = WAITING /\ (dep_failed(j) \/ satisfied(j))
  \/ status[j] = RUNNING /\ \A x \in Range(products(j)) : received[x]

\* the solver of the running build has artifact_received set
Signalled == solver.pc # "off" /\ event

\* the next scan has started, or the build is over and the solver is gone
Rescanned == solver.pc = "off" \/ (solver.pc = "scan" /\ solver.idx = 1)

\* the solver is suspended in a put behind a job that no worker can take:
\* no request offers the capabilities of the queued job
PutStuck ==
  /\ solver.pc = "put" /\ queue # <<>>
  /\ \A w \in Workers : ~(capabilities(Head(queue).job) \subseteq wcaps[w])

\* C36: an event set after the solver cleared it leads to a further scan,
\* also when it is set while the solver is suspended in a put, and the
\* solver does not stay in its wait forever while a job is ready
C36_NoMissedWakeup ==
  /\ Signalled ~> Rescanned
  /\ []<>~(solver.pc = "wait" /\ \E j \in JobNames : Ready(j))

\* C36 as it holds: the event leads to a further scan unless the solver is
\* suspended in a put behind a job that no worker can take, where it stays;
\* and the solver does not stay in its wait forever while a job is ready
C36_WakeupUnlessStuck ==
  /\ Signalled ~> (Rescanned \/ PutStuck)
  /\ []<>~(solver.pc = "wait" /\ \E j \in JobNames : Ready(j))
  /\ [](solver.pc = "wait" /\ event => ENABLED SolverWake)

\* the event was set while the solver was suspended in the put of B, behind
\* a job that a worker can take
C36_Witness ==
  /\ solver.pc = "put" /\ solver.item = "B" /\ event /\ queue # <<>> /\ ~PutStuck

\* C37: in every state of a build, an artifact that is failed is received
C37_FailedIsReceived == \A a \in DOMAIN failed : failed[a] => received[a]

\* the cascade has failed the product of a job that never ran: B is FAILED
\* without having been enqueued and its product is failed and received
C37_Witness ==
  /\ DOMAIN status # {} /\ "B" \in DOMAIN status /\ status["B"] = FAILED
  /\ "B" \notin enqueued
  /\ \E a \in Range(products("B")) : failed[a] /\ received[a]

\* the step is the solver's dispatch of job j: WAITING to RUNNING, followed
\* by the put unless store_status raises
SolverDispatches(j) == status[j] = WAITING /\ status'[j] = RUNNING

\* C38: within a build no job that has left WAITING is WAITING again, and
\* the solver dispatches no job that it has enqueued before in that build,
\* whatever messages, fail commands and scans occur
C38_NeverWaitingAgain ==
  [][nbuilds' = nbuilds =>
       \A j \in DOMAIN status \cap DOMAIN status' :
         /\ status[j] # WAITING => status'[j] # WAITING
         /\ SolverDispatches(j) => j \notin enqueued
         /\ j \in enqueued' \ enqueued => SolverDispatches(j)]_vars

\* in the second build of the project, a job that was enqueued has become
\* terminal by a completion message and a job that never ran was failed
C38_Witness ==
  /\ nbuilds = 2 /\ DOMAIN status # {}
  /\ \E j \in enqueued : terminating(status[j]) /\ exit_code[j] # NoExitCode
  /\ \E j \in DOMAIN status \ enqueued : status[j] = FAILED

\* the number of artifact names of the graph
NProducts == Cardinality(DOMAIN failed)

\* C39: a fail command's calls of Job.fail return, on graphs with cycles
\* and shared products too: the command that entered its loop ends it; no
\* product starts the loop over its consumers more than once; the calls
\* nest no deeper than one per product marked; and the command leaves the
\* bits that the recursion gives
C39_FailTerminates ==
  /\ ~Quiet ~> Quiet
  /\ [][\A a \in DOMAIN frames'.cascades : frames'.cascades[a] <= 1]_vars
  /\ [][Len(frames'.stack) <= NProducts + 1]_vars
  /\ [][~Quiet /\ Quiet' =>
          /\ status' = failWaiting(1, frames.before).status
          /\ received' = failWaiting(1, frames.before).received
          /\ failed' = failWaiting(1, frames.before).failed]_vars

\* on the graph with shared products and a cycle, a fail command given
\* while A runs has returned: p and q each started one cascade, B and C are
\* failed
C39_Witness ==
  /\ Quiet /\ gen = SharedGraph
  /\ DOMAIN frames.cascades = {"p", "q", "t"}
  /\ frames.cascades["p"] = 1 /\ frames.cascades["q"] = 1
  /\ status["A"] \in {RUNNING, WAITING_FOR_DONE}
  /\ status["C"] = FAILED

\* the step is a message (an artifact report or the completion) of a worker
\* that runs a job dispatched by an earlier build of the project
StaleMessage(w) ==
  /\ wk[w].st = "run" /\ wk[w].build < nbuilds
  /\ wk'[w] # wk[w]

\* C40: a build is isolated from earlier builds: the queue holds no job of
\* a build that is DONE, and no message of a worker that runs a job of an
\* earlier build changes a job status or an artifact bit of a later build
C40_BuildIsolation ==
  /\ [](\A i \in DOMAIN queue : state[queue[i].build] # "DONE")
  /\ [][\A w \in Workers :
          StaleMessage(w) /\ nbuilds' = nbuilds
            => UNCHANGED <<status, received, failed>>]_vars
====
